---- MODULE Spec2Model ----
(***************************************************************************)
(* Ingestion and deduplication engine of ocr_chatbot_dms                   *)
(* (src/Models/ocr_search_model_1.py, DocumentProcessor).                   *)
(*                                                                         *)
(* The model holds the local search index (the FTS5 table document_data),  *)
(* the canonical store (the MySQL table document_details), the failed-file *)
(* log (failed_files.json) and the poller's max_id / pending_files.        *)
(* Texts are sequences of one-character strings; the SHA-256 digest of a   *)
(* fingerprint is modelled by the fingerprint string itself (collision     *)
(* freedom of SHA-256 is assumed).                                         *)
(***************************************************************************)
EXTENDS Integers, Sequences, FiniteSets, TLC

\* ------------------------------------------------------------------ bounds
MaxId    == 3      \* canonical records the upload pipeline creates
MaxCalls == 3      \* process_single_document calls that are not skipped
MaxSideCalls == 2  \* the same, where corruption, searches or threads add states
MaxTicks == 2      \* instants from the wait bound on the poller is followed for
MaxReturned == 2   \* calls of a function without state kept in the history

\* ---------------------------------------------------------- program values
\* SQL NULL / Python None for an integer column.  It is smaller than every
\* id, as SQLite sorts NULL first under ORDER BY ... ASC.
NULL == -1

\* Python None for a string value (text or qr_data).
None == <<"None">>

\* normalized_text[:5000]
FingerprintTextLen == 5000

\* Wait up to 15 seconds for file to appear on disk
max_wait_time == 15

\* encryption_utils.py: GCM_IV_LENGTH, the tag's 16 bytes, the key's 16
\* bytes and the chunk read by encrypt_stream
GCM_IV_LENGTH == 12
TagBytes == 16
KeyBytes == 16
buffer_size == 8192

image_extensions == {".png", ".jpg", ".jpeg", ".bmp", ".gif", ".tiff", ".webp"}
word_extensions  == {".docx", ".doc", ".docm", ".dotx", ".dotm"}
excel_extensions == {".xlsx", ".xls", ".xlsm", ".csv", ".xlsb"}
valid_extensions == {".pdf", ".txt"} \cup image_extensions
                      \cup word_extensions \cup excel_extensions

\* ------------------------------------------------------------ input sets
\* A file name is <<stem, suffix>>; Path(doc_path).suffix.lower() is its
\* second component.  Record i of the canonical store is uploaded under
\* RecordName(i) unless the pipeline reuses a name.
Letters == <<"a", "b", "c", "d", "e", "f", "n", "z">>

RecordName(i) == <<Letters[i], IF i % 2 = 1 THEN ".pdf" ELSE ".txt">>

RecordNames == {RecordName(i) : i \in 1..MaxId}

\* The names the upload pipeline uses while the poller runs.
PollNames == {RecordName(1), RecordName(2)}

\* The paths handed to process_single_document: the records' files, a file
\* with no canonical record and a file of an unsupported type.
PathNames == RecordNames \cup {<<"n", ".pdf">>, <<"z", ".exe">>}

\* What an extract_text_from_* call can give back: (text, qr_data), or an
\* exception.  T1 and T2 differ only in their whitespace runs.
T1 == <<"a", "b", " ", "c">>
T2 == <<" ", "a", "b", "\n", " ", "c">>
T3 == <<"A", "B">>
Blank == <<" ", "\n">>
QR == <<"q">>
Extractions ==
    { [raises |-> FALSE, text |-> T1,    qr |-> None],
      [raises |-> FALSE, text |-> T2,    qr |-> None],
      [raises |-> FALSE, text |-> T3,    qr |-> None],
      [raises |-> FALSE, text |-> T1,    qr |-> QR],
      [raises |-> FALSE, text |-> Blank, qr |-> None],
      [raises |-> FALSE, text |-> None,  qr |-> None],
      [raises |-> TRUE,  text |-> None,  qr |-> None] }

\* The threads that can run process_single_document at the same time.
Procs == {"t1", "t2"}

VARIABLES
    document_data,     \* the FTS5 table: sequence of rows, in rowid order
    document_details,  \* the canonical table: row i is the record with id i
    failed_files,      \* failed_files.json: a list of file names
    proc,              \* per thread: where its process_single_document call
                       \* stands, and the call's locals
    max_id,            \* self.max_id
    pending_files,     \* the poller's pending_files: [file_name, first_seen]
                       \* in insertion order
    now,               \* time.time(), in seconds
    disk,              \* the names of the files under the base directories
    results,           \* what search_database returned, when the latest
                       \* operation was a search
    processed,         \* history: the [id, hash] pairs of the calls that
                       \* reached the hash lookup
    calls,             \* history: how many calls were not skipped, that
                       \* is, reached the text extraction
    last_outcome,      \* history: how the latest call of
                       \* process_single_document that ran to completion
                       \* ended
    returned           \* history: the calls of the functions without state
                       \* (fingerprint, encryption, extraction), each with
                       \* its arguments and what it returned

pollVars == <<max_id, pending_files, now, disk>>

vars == <<document_data, document_details, failed_files, proc, max_id,
          pending_files, now, disk, results, processed, calls, last_outcome,
          returned>>

\* ------------------------------------------------------------ fingerprint
IsSpace(c) == c \in {" ", "\n", "\t"}

\* str.strip() gives the empty string
IsBlank(text) == \A i \in DOMAIN text : IsSpace(text[i])

\* text.split(): the maximal runs of non-whitespace characters, from
\* position i on, one word at a time
RECURSIVE SplitFrom(_, _)
SplitFrom(text, i) ==
    IF \A j \in i..Len(text) : IsSpace(text[j]) THEN <<>>
    ELSE LET first == CHOOSE j \in i..Len(text) :
                          /\ ~IsSpace(text[j])
                          /\ \A k \in i..(j - 1) : IsSpace(text[k])
             last  == CHOOSE j \in first..Len(text) :
                          /\ j = Len(text) \/ IsSpace(text[j + 1])
                          /\ \A k \in first..j : ~IsSpace(text[k])
         IN  <<SubSeq(text, first, last)>> \o SplitFrom(text, last + 1)

Split(text) == SplitFrom(text, 1)

\* " ".join(words)
RECURSIVE JoinSpace(_)
JoinSpace(words) ==
    IF words = <<>> THEN <<>>
    ELSE IF Len(words) = 1 THEN words[1]
    ELSE words[1] \o <<" ">> \o JoinSpace(Tail(words))

normalized_textStripOnly(text) ==
    IF IsBlank(text) THEN <<>>
    ELSE SubSeq(text, CHOOSE j \in DOMAIN text : ~IsSpace(text[j])
                                  /\ \A k \in 1..(j - 1) : IsSpace(text[k]),
                Len(text))

normalized_text(text) == JoinSpace(Split(text))

Slice(s, n) == SubSeq(s, 1, IF Len(s) < n THEN Len(s) ELSE n)

content_fingerprintWholeText(text, qr_data) ==
    normalized_text(text) \o <<"|">>
        \o (IF qr_data = None THEN <<>> ELSE qr_data)

content_fingerprint(text, qr_data) ==
    Slice(normalized_text(text), FingerprintTextLen) \o <<"|">>
        \o (IF qr_data = None THEN <<>> ELSE qr_data)

hash_value(text, qr_data) == content_fingerprint(text, qr_data)

\* Texts longer than the slice that is hashed, which differ in their last
\* character only.
LongText(last) ==
    SubSeq([i \in 1..(FingerprintTextLen + 1) |->
               IF i = FingerprintTextLen + 1 THEN last ELSE "a"],
           1, FingerprintTextLen + 1)

FingerprintTexts ==
    {T1, T2, T3, <<"a", "b">>, <<"\t", "a", "b", " ">>, <<"a", "B">>}
LongTexts == {LongText("b"), LongText("B")}
FingerprintInputs ==
    (FingerprintTexts \X {None, QR}) \cup (LongTexts \X {None})

\* ------------------------------------------------------- canonical store
\* SELECT id FROM document_details WHERE file_name = :file_name
IdsNamed(details, file_name) ==
    {i \in DOMAIN details : details[i].file_name = file_name}

execute_sqlEveryRow(details, id, is_duplicate, document_id) ==
    [i \in DOMAIN details |->
        [details[i] EXCEPT !.is_duplicate = is_duplicate,
                           !.document_id = document_id]]

\* UPDATE document_details SET is_duplicate = .., document_id = .. WHERE id = ..
\* (no row has the id: nothing changes)
execute_sql(details, id, is_duplicate, document_id) ==
    [i \in DOMAIN details |->
        IF i = id
        THEN [details[i] EXCEPT !.is_duplicate = is_duplicate,
                                !.document_id = document_id]
        ELSE details[i]]

\* ----------------------------------------------------------- search index
\* Mutant of SelectByHash: the lookup looks at the first row only.
SelectByHashFirstRow(index, h) ==
    IF index # <<>> /\ index[1].hash = h
    THEN <<index[1].mysql_original_id>>
    ELSE <<>>

\* SELECT mysql_original_id FROM document_data WHERE hash = ?
\*   ORDER BY mysql_original_id ASC LIMIT 1; cursor.fetchone()
\* <<>> is "no row"; otherwise the one-column row.
SelectByHash(index, h) ==
    LET ids == {index[i].mysql_original_id :
                    i \in {j \in DOMAIN index : index[j].hash = h}}
    IN  IF ids = {} THEN <<>>
        ELSE <<CHOOSE m \in ids : \A n \in ids : m <= n>>

\* Mutant of RepointOriginal: the index keeps the higher id.
RepointOriginalLost(index, current_id, found_original_id) == index

RepointOriginalDeletes(index, current_id, found_original_id) ==
    SelectSeq(index, LAMBDA e : e.mysql_original_id # found_original_id)

\* UPDATE document_data SET mysql_original_id = ? WHERE mysql_original_id = ?
RepointOriginal(index, current_id, found_original_id) ==
    [i \in DOMAIN index |->
        IF index[i].mysql_original_id = found_original_id
        THEN [index[i] EXCEPT !.mysql_original_id = current_id]
        ELSE index[i]]

\* Mutant of RepairOriginal: the repair never reaches the index.
RepairOriginalLost(index, doc_id, h) == index

\* UPDATE document_data SET mysql_original_id = ? WHERE hash = ?
RepairOriginal(index, doc_id, h) ==
    [i \in DOMAIN index |->
        IF index[i].hash = h
        THEN [index[i] EXCEPT !.mysql_original_id = doc_id]
        ELSE index[i]]

\* INSERT INTO document_data (mysql_original_id, file_name, content, qr_data, hash)
InsertEntry(index, doc_id, file_name, text, qr_data, h) ==
    Append(index, [mysql_original_id |-> doc_id, file_name |-> file_name,
                   content |-> text, qr_data |-> qr_data, hash |-> h])

\* ---------------------------------------------------------- failed files
\* Python's order on the model's file names, which differ in their first
\* character.
NameBefore(a, b) ==
    \E i, j \in DOMAIN Letters :
        Letters[i] = a[1] /\ Letters[j] = b[1] /\ i < j

\* sorted(names)
RECURSIVE sorted(_)
sorted(names) ==
    IF names = {} THEN <<>>
    ELSE LET first == CHOOSE a \in names :
                          \A b \in names \ {a} : NameBefore(a, b)
         IN  <<first>> \o sorted(names \ {first})

Range(seq) == {seq[i] : i \in DOMAIN seq}

log_failed_fileAppends(failed, file_name) == Append(failed, file_name)

\* failed_files.json is read as a set; only a new name rewrites the file,
\* as the sorted list of the set
log_failed_file(failed, file_name) ==
    LET existing_names == Range(failed)
    IN  IF file_name \notin existing_names
        THEN sorted(existing_names \cup {file_name})
        ELSE failed

\* ------------------------------------------------- process_single_document
\* SELECT id FROM document_details WHERE file_name = :file_name; df.iloc[0]
\* The query has no ORDER BY: with several rows of that name any of them
\* can come first.  {NULL} stands for the None of an empty result.
get_id_from_db(details, file_name) ==
    IF IdsNamed(details, file_name) = {} THEN {NULL}
    ELSE IdsNamed(details, file_name)

\* The extraction call chosen by the suffix: only images and PDFs give
\* qr_data, the other extractors return the text alone.
Extracted(file_name, ex) ==
    IF file_name[2] \in image_extensions \cup {".pdf"}
    THEN ex
    ELSE [ex EXCEPT !.qr = None]

text_is_emptyNoneOnly(text) == text = None

\* Line 631: text is None or (isinstance(text, str) and not text.strip())
text_is_empty(text) == text = None \/ IsBlank(text)

BranchOnRowDuplicateRepoints(index, file_name, doc_id, text, qr_data, row) ==
    LET h == hash_value(text, qr_data)
    IN  IF row # <<>> /\ row[1] # NULL
        THEN [index   |-> RepointOriginal(index, doc_id, row[1]),
              updates |-> IF doc_id < row[1]
                          THEN << <<row[1], 1, doc_id>>, <<doc_id, 0, NULL>> >>
                          ELSE << <<doc_id, 1, row[1]>> >>,
              outcome |-> IF doc_id < row[1] THEN "repointed"
                          ELSE "duplicate"]
        ELSE IF row # <<>> /\ row[1] = NULL
        THEN [index   |-> RepairOriginal(index, doc_id, h),
              updates |-> << <<doc_id, 0, NULL>> >>,
              outcome |-> "repaired"]
        ELSE [index   |-> InsertEntry(index, doc_id, file_name, text,
                                      qr_data, h),
              updates |-> << <<doc_id, 0, NULL>> >>,
              outcome |-> "inserted"]

\* The branch taken on the row the hash lookup fetched (lines 657-771): the
\* index after the branch's statement on document_data, and the execute_sql
\* calls that follow it, in order.
BranchOnRow(index, file_name, doc_id, text, qr_data, row) ==
    LET h == hash_value(text, qr_data)
    IN  IF row # <<>> /\ row[1] # NULL
        THEN LET found_original_id == row[1]
                 current_id == doc_id
             IN  IF current_id < found_original_id
                 THEN [index   |-> RepointOriginal(index, current_id,
                                                   found_original_id),
                       updates |-> << <<found_original_id, 1, current_id>>,
                                      <<current_id, 0, NULL>> >>,
                       outcome |-> "repointed"]
                 ELSE [index   |-> index,
                       updates |-> << <<current_id, 1, found_original_id>> >>,
                       outcome |-> "duplicate"]
        ELSE IF row # <<>> /\ row[1] = NULL
        THEN [index   |-> RepairOriginal(index, doc_id, h),
              updates |-> << <<doc_id, 0, NULL>> >>,
              outcome |-> "repaired"]
        ELSE [index   |-> InsertEntry(index, doc_id, file_name, text,
                                      qr_data, h),
              updates |-> << <<doc_id, 0, NULL>> >>,
              outcome |-> "inserted"]

\* The execute_sql calls of a branch, one after the other.
RECURSIVE ApplyUpdates(_, _)
ApplyUpdates(details, updates) ==
    IF updates = <<>> THEN details
    ELSE ApplyUpdates(execute_sql(details, updates[1][1], updates[1][2],
                                  updates[1][3]),
                      Tail(updates))

\* The hash lookup and the branch taken on its row (lines 649-771), for a
\* document with canonical id doc_id whose extraction gave (text, qr_data).
ResolveDuplicate(index, details, file_name, doc_id, text, qr_data) ==
    LET b == BranchOnRow(index, file_name, doc_id, text, qr_data,
                         SelectByHash(index, hash_value(text, qr_data)))
    IN  [index   |-> b.index,
         details |-> ApplyUpdates(details, b.updates),
         outcome |-> b.outcome]

process_single_documentLogsUnknown(index, details, failed, file_name, doc_id, ex) ==
    LET skip == [index |-> index, details |-> details, failed |-> failed,
                 outcome |-> "skipped", hash |-> <<>>]
        e    == Extracted(file_name, ex)
    IN  IF file_name[2] \notin valid_extensions THEN skip
        ELSE IF doc_id = NULL \/ e.raises \/ text_is_empty(e.text)
        THEN [skip EXCEPT !.failed = log_failed_file(failed, file_name),
                          !.outcome = IF doc_id = NULL THEN "skipped"
                                      ELSE "failed"]
        ELSE LET r == ResolveDuplicate(index, details, file_name, doc_id,
                                       e.text, e.qr)
             IN  [index |-> r.index, details |-> r.details, failed |-> failed,
                  outcome |-> r.outcome, hash |-> hash_value(e.text, e.qr)]

\* process_single_document(doc_path) for a path named file_name, with doc_id
\* the result of get_id_from_db and ex what the extractor gives.
process_single_document(index, details, failed, file_name, doc_id, ex) ==
    LET skip == [index |-> index, details |-> details, failed |-> failed,
                 outcome |-> "skipped", hash |-> <<>>]
        e    == Extracted(file_name, ex)
    IN  IF file_name[2] \notin valid_extensions THEN skip
        ELSE IF doc_id = NULL THEN skip
        ELSE IF e.raises \/ text_is_empty(e.text)
        THEN [skip EXCEPT !.failed = log_failed_file(failed, file_name),
                          !.outcome = "failed"]
        ELSE LET r == ResolveDuplicate(index, details, file_name, doc_id,
                                       e.text, e.qr)
             IN  [index |-> r.index, details |-> r.details, failed |-> failed,
                  outcome |-> r.outcome, hash |-> hash_value(e.text, e.qr)]

\* search_database has not been the latest operation.
NoSearch == [searched |-> FALSE]

\* ---------------------------------------------------------------- actions
\* The upload pipeline (outside the engine) adds the next canonical record.
UploadRecord(file_name) ==
    /\ document_details' = Append(document_details,
           [file_name |-> file_name, is_duplicate |-> NULL,
            document_id |-> NULL])
    /\ UNCHANGED <<returned, last_outcome, document_data, failed_files, proc,
                   max_id, pending_files, now, disk, results, processed,
                   calls>>

\* One call of process_single_document, run to completion, that resolves
\* the file name to doc_id.
ProcessSingleDocumentAs(file_name, ex, doc_id) ==
    /\ calls < MaxCalls
    /\ doc_id \in get_id_from_db(document_details, file_name)
    /\ LET r == process_single_document(document_data, document_details,
                                        failed_files, file_name, doc_id, ex)
       IN  /\ document_data' = r.index
           /\ document_details' = r.details
           /\ failed_files' = r.failed
           /\ processed' = IF r.hash = <<>> THEN processed
                           ELSE processed \cup {[id |-> doc_id, hash |-> r.hash]}
           /\ calls' = IF r.outcome = "skipped" THEN calls ELSE calls + 1
           /\ last_outcome' = r.outcome
    /\ results' = NoSearch
    /\ UNCHANGED <<returned, proc, pollVars>>

ProcessSingleDocument(file_name, ex) ==
    \E doc_id \in 1..MaxId \cup {NULL} :
        ProcessSingleDocumentAs(file_name, ex, doc_id)

\* The canonical store as the upload pipeline left it: one record per name,
\* none resolved yet.
UploadedStore ==
    [i \in 1..MaxId |-> [file_name |-> RecordName(i), is_duplicate |-> NULL,
                         document_id |-> NULL]]

\* _update_max_id: SELECT MAX(id) FROM document_details; an empty table
\* leaves max_id as it is.
update_max_id(details, current) ==
    IF details = <<>> THEN current ELSE Len(details)

\* A thread that is not inside process_single_document.
Idle ==
    [pc |-> "idle", file_name |-> <<>>, doc_id |-> NULL, text |-> <<>>,
     qr_data |-> None, row |-> <<>>, updates |-> <<>>]

Init ==
    /\ document_data = <<>>
    /\ document_details = UploadedStore
    /\ failed_files = <<>>
    /\ proc = [p \in Procs |-> Idle]
    /\ max_id = update_max_id(document_details, 0)
    /\ pending_files = <<>>
    /\ now = 0
    /\ disk = {}
    /\ results = NoSearch
    /\ processed = {}
    /\ calls = 0
    /\ last_outcome = "none"
    /\ returned = {}

\* Calls of process_single_document one at a time, over an index that
\* starts empty.
Next ==
    \E file_name \in PathNames, ex \in Extractions :
        ProcessSingleDocument(file_name, ex)

Spec == Init /\ [][Next]_vars

\* ------------------------------------------------- documents that agree
\* Extractions that agree or differ in what the hash is taken of: in their
\* whitespace, in an absent or empty payload, and past the slice.
AgreeingExtractions ==
    { [raises |-> FALSE, text |-> T1,            qr |-> None],
      [raises |-> FALSE, text |-> T2,            qr |-> <<>>],
      [raises |-> FALSE, text |-> LongText("b"), qr |-> None],
      [raises |-> FALSE, text |-> LongText("B"), qr |-> None] }

\* Their files: a PDF and a text file among them.
AgreeingNames == {RecordName(1), RecordName(2), RecordName(3)}

NextAgree ==
    /\ calls < MaxSideCalls
    /\ \E file_name \in AgreeingNames, ex \in AgreeingExtractions :
           ProcessSingleDocument(file_name, ex)

\* Calls of process_single_document on such documents.
SpecAgree == Init /\ [][NextAgree]_vars

\* ------------------------------------------------------ concurrent calls
\* Each call opens its own connection (get_db_connection) and runs no
\* transaction around the lookup and the write that follows it, and takes
\* no lock: between any two statements of one call, the statements of
\* another call can run.

\* Lines 590-655 of a call on thread p: the checks, the id lookup, the
\* extraction, and the SELECT by hash whose row the call keeps.
BeginCall(p, file_name, ex) ==
    /\ proc[p].pc = "idle"
    /\ calls < MaxSideCalls
    /\ \E doc_id \in get_id_from_db(document_details, file_name) :
         LET e == Extracted(file_name, ex)
         IN  /\ file_name[2] \in valid_extensions
             /\ doc_id # NULL
             /\ calls' = calls + 1
             /\ IF e.raises \/ text_is_empty(e.text)
                THEN /\ failed_files' = log_failed_file(failed_files, file_name)
                     /\ UNCHANGED <<proc, processed>>
                ELSE /\ proc' = [proc EXCEPT ![p] =
                            [pc |-> "selected", file_name |-> file_name,
                             doc_id |-> doc_id, text |-> e.text,
                             qr_data |-> e.qr,
                             row |-> SelectByHash(document_data,
                                         hash_value(e.text, e.qr)),
                             updates |-> <<>>]]
                     /\ processed' = processed \cup
                            {[id |-> doc_id, hash |-> hash_value(e.text, e.qr)]}
                     /\ UNCHANGED failed_files
    /\ UNCHANGED <<returned, last_outcome, document_data, document_details,
                   pollVars, results>>

\* The branch's statement on document_data and its commit.
WriteIndex(p) ==
    /\ proc[p].pc = "selected"
    /\ LET b == BranchOnRow(document_data, proc[p].file_name, proc[p].doc_id,
                            proc[p].text, proc[p].qr_data, proc[p].row)
       IN  /\ document_data' = b.index
           /\ proc' = [proc EXCEPT ![p].pc = "indexed",
                                   ![p].updates = b.updates]
    /\ UNCHANGED <<returned, last_outcome, document_details, failed_files,
                   pollVars, results, processed, calls>>

\* The next execute_sql of the branch; after the last one the call returns.
WriteStore(p) ==
    /\ proc[p].pc = "indexed"
    /\ LET u == proc[p].updates[1]
       IN  document_details' = execute_sql(document_details, u[1], u[2], u[3])
    /\ proc' = [proc EXCEPT ![p] =
                   IF Len(proc[p].updates) = 1 THEN Idle
                   ELSE [proc[p] EXCEPT !.updates = Tail(proc[p].updates)]]
    /\ UNCHANGED <<returned, last_outcome, document_data, failed_files,
                   pollVars, results, processed, calls>>

NextRace ==
    \E p \in Procs :
        \/ \E file_name \in RecordNames, ex \in Extractions :
              BeginCall(p, file_name, ex)
        \/ WriteIndex(p)
        \/ WriteStore(p)

\* Calls of process_single_document on two threads, interleaved statement
\* by statement.
SpecRace == Init /\ [][NextRace]_vars

\* -------------------------------------------------- fingerprint alone
\* hash_value on these inputs, computed once.
HashValues ==
    [input \in FingerprintInputs |-> hash_value(input[1], input[2])]

\* process_single_document, lines 638-647, on an extracted text and payload.
HashValue(text, qr_data) ==
    /\ Cardinality(returned) < MaxReturned
    /\ returned' = returned \cup
           {[op |-> "hash_value", text |-> text, qr_data |-> qr_data,
             value |-> HashValues[<<text, qr_data>>]]}
    /\ UNCHANGED <<document_data, document_details, failed_files, proc,
                   pollVars, results, processed, calls, last_outcome>>

NextFingerprint ==
    \E input \in FingerprintInputs : HashValue(input[1], input[2])

\* The fingerprint of extracted texts, apart from the stores.
SpecFingerprint == Init /\ [][NextFingerprint]_vars

\* -------------------------------------------------------------- encryption
\* Bytes are the integers 0..255.  AES-GCM is the cryptography package's:
\* the model keeps its shape, a keystream XORed position by position and a
\* 16-byte tag computed from key, IV and ciphertext, and replaces the block
\* cipher and GHASH by arithmetic on bytes.
Bit(x, i) == (x \div (2 ^ i)) % 2

Xor(a, b) ==
    ((Bit(a, 0) + Bit(b, 0)) % 2) + 2 * ((Bit(a, 1) + Bit(b, 1)) % 2)
    + 4 * ((Bit(a, 2) + Bit(b, 2)) % 2) + 8 * ((Bit(a, 3) + Bit(b, 3)) % 2)
    + 16 * ((Bit(a, 4) + Bit(b, 4)) % 2) + 32 * ((Bit(a, 5) + Bit(b, 5)) % 2)
    + 64 * ((Bit(a, 6) + Bit(b, 6)) % 2) + 128 * ((Bit(a, 7) + Bit(b, 7)) % 2)

\* The keystream byte for the byte at offset pos of the stream.
KeyStream(key, iv, pos) ==
    (31 * key[(pos % KeyBytes) + 1] + 17 * iv[(pos % GCM_IV_LENGTH) + 1]
       + 7 * pos + (pos \div KeyBytes)) % 256

\* encryptor.update(chunk) / decryptor.update(ciphertext), for a chunk that
\* starts at offset pos of the stream
Update(key, iv, chunk, pos) ==
    [i \in 1..Len(chunk) |-> Xor(chunk[i], KeyStream(key, iv, pos + i - 1))]

\* encryptor.tag / the tag decryptor.finalize() compares with
Tag(key, iv, ciphertext) ==
    [i \in 1..TagBytes |->
        (key[i] + iv[((i - 1) % GCM_IV_LENGTH) + 1] + i * Len(ciphertext)
           + Cardinality({j \in DOMAIN ciphertext : ciphertext[j] % 2 = 1})
           + (IF ciphertext = <<>> THEN 0
              ELSE ciphertext[1] + ciphertext[Len(ciphertext)])) % 256]

\* The loop of encrypt_stream: input_stream.read(buffer_size) until the
\* chunk is empty, from offset pos of the input on.
RECURSIVE EncryptChunks(_, _, _, _)
EncryptChunks(key, iv, input, pos) ==
    LET chunk == SubSeq(input, pos + 1,
                        IF pos + buffer_size < Len(input)
                        THEN pos + buffer_size ELSE Len(input))
    IN  IF chunk = <<>> THEN <<>>
        ELSE Update(key, iv, chunk, pos)
                 \o EncryptChunks(key, iv, input, pos + Len(chunk))

\* What encrypt_stream writes to output_stream, iv being os.urandom's bytes.
encrypt_stream(key, iv, input) ==
    LET ciphertext == EncryptChunks(key, iv, input, 0)
    IN  iv \o ciphertext \o Tag(key, iv, ciphertext)

\* Python's s[:-n] and s[-n:]
DropLast(s, n) == SubSeq(s, 1, IF Len(s) > n THEN Len(s) - n ELSE 0)
TakeLast(s, n) == SubSeq(s, IF Len(s) > n THEN Len(s) - n + 1 ELSE 1, Len(s))

Raised(exception) == [raises |-> exception, value |-> <<>>]
Returned(value) == [raises |-> "None", value |-> value]

decrypt_streamTagInCiphertext(key, data) ==
    LET iv == SubSeq(data, 1, IF Len(data) < GCM_IV_LENGTH THEN Len(data)
                             ELSE GCM_IV_LENGTH)
        encrypted_data == SubSeq(data, Len(iv) + 1, Len(data))
        tag == TakeLast(encrypted_data, TagBytes)
    IN  IF Len(iv) # GCM_IV_LENGTH THEN Raised("IllegalStateException")
        ELSE IF Len(tag) < TagBytes THEN Raised("ValueError")
        ELSE IF tag # Tag(key, iv, DropLast(encrypted_data, TagBytes))
             THEN Raised("InvalidTag")
        ELSE Returned(Update(key, iv, encrypted_data, 0))

\* decrypt_stream on the bytes of a file: the plaintext, or the exception
\* raised (IllegalStateException by the code, ValueError by modes.GCM for a
\* tag shorter than 16 bytes, InvalidTag by decryptor.finalize()).
decrypt_stream(key, data) ==
    LET iv == SubSeq(data, 1, IF Len(data) < GCM_IV_LENGTH THEN Len(data)
                             ELSE GCM_IV_LENGTH)
        encrypted_data == SubSeq(data, Len(iv) + 1, Len(data))
        ciphertext == DropLast(encrypted_data, TagBytes)
        tag == TakeLast(encrypted_data, TagBytes)
    IN  IF Len(iv) # GCM_IV_LENGTH THEN Raised("IllegalStateException")
        ELSE IF Len(tag) < TagBytes THEN Raised("ValueError")
        ELSE IF tag # Tag(key, iv, ciphertext) THEN Raised("InvalidTag")
        ELSE Returned(Update(key, iv, ciphertext, 0))

\* The configured key and another one; what os.urandom can give.
Key(b) == [i \in 1..KeyBytes |-> b]
Keys == {Key(3), Key(4)}
IV(b) == [i \in 1..GCM_IV_LENGTH |-> b]

\* Messages: none, a short one, and one longer than a chunk of encrypt_stream.
ShortMessage == <<104, 105>>
LongMessage == [i \in 1..(buffer_size + 1) |-> 97 + (i % 3)]
EncryptInputs ==
    { <<Key(3), IV(0), <<>>>>, <<Key(3), IV(0), ShortMessage>>,
      <<Key(3), IV(200), ShortMessage>>, <<Key(3), IV(0), LongMessage>> }

\* A file whose tag lost a bit on the way.
CorruptTag(data) == [data EXCEPT ![Len(data)] = Xor(@, 1)]

\* The files decrypt_stream is handed: files encrypted under a key, one of
\* them with a corrupted tag, and files that were never encrypted, shorter
\* than an IV, shorter than an IV and a tag, and longer.
PlainFile(n) == [i \in 1..n |-> 97 + (i % 2)]
Files ==
    { [data |-> encrypt_stream(in[1], in[2], in[3]), origin |-> "encrypted",
       key |-> in[1]] : in \in EncryptInputs }
    \cup { [data |-> CorruptTag(encrypt_stream(Key(3), IV(0), ShortMessage)),
            origin |-> "corrupted", key |-> Key(3)] }
    \cup { [data |-> PlainFile(n), origin |-> "plain", key |-> <<>>] :
              n \in {GCM_IV_LENGTH - 2, GCM_IV_LENGTH + TagBytes - 2,
                     GCM_IV_LENGTH + TagBytes + 2} }

\* encrypt_stream and decrypt_stream on these inputs, computed once.
EncryptedStreams ==
    [in \in EncryptInputs |-> encrypt_stream(in[1], in[2], in[3])]
DecryptedStreams ==
    [key \in Keys, file \in Files |-> decrypt_stream(key, file.data)]

EncryptStream(key, iv, input) ==
    /\ Cardinality(returned) < MaxReturned
    /\ returned' = returned \cup
           {[op |-> "encrypt_stream", key |-> key, iv |-> iv,
             input |-> input, output |-> EncryptedStreams[<<key, iv, input>>]]}
    /\ UNCHANGED <<document_data, document_details, failed_files, proc,
                   pollVars, results, processed, calls, last_outcome>>

DecryptStream(key, file) ==
    /\ Cardinality(returned) < MaxReturned
    /\ returned' = returned \cup
           {[op |-> "decrypt_stream", key |-> key, file |-> file,
             result |-> DecryptedStreams[key, file]]}
    /\ UNCHANGED <<document_data, document_details, failed_files, proc,
                   pollVars, results, processed, calls, last_outcome>>

NextCrypto ==
    \/ \E in \in EncryptInputs : EncryptStream(in[1], in[2], in[3])
    \/ \E key \in Keys, file \in Files : DecryptStream(key, file)

\* AESGCMEncryption on its own.
SpecCrypto == Init /\ [][NextCrypto]_vars

\* -------------------------------------------- extraction from a file's bytes
\* UTF-8: the length of the sequence a lead byte starts (0: not a lead byte)
Utf8Len(b) ==
    IF b < 128 THEN 1 ELSE IF b \in 194..223 THEN 2
    ELSE IF b \in 224..239 THEN 3 ELSE IF b \in 240..244 THEN 4 ELSE 0

\* The bytes allowed right after a lead byte.
Utf8Second(lead) ==
    IF lead = 224 THEN 160..191 ELSE IF lead = 237 THEN 128..159
    ELSE IF lead = 240 THEN 144..191 ELSE IF lead = 244 THEN 128..143
    ELSE 128..191

\* How many bytes from position i on belong to a well-formed sequence or to
\* the start of one, and whether the sequence is complete.
Utf8At(s, i) ==
    LET n == Utf8Len(s[i])
        ok(k) == /\ i + k <= Len(s)
                 /\ s[i + k] \in (IF k = 1 THEN Utf8Second(s[i]) ELSE 128..191)
        good == IF n = 0 THEN 1
                ELSE IF n >= 2 /\ ~ok(1) THEN 1
                ELSE IF n >= 3 /\ ~ok(2) THEN 2
                ELSE IF n >= 4 /\ ~ok(3) THEN 3
                ELSE n
    IN  [valid |-> n > 0 /\ good = n, bytes |-> good]

CodePoint(s, i, n) ==
    IF n = 1 THEN s[i]
    ELSE IF n = 2 THEN (s[i] - 192) * 64 + (s[i + 1] - 128)
    ELSE IF n = 3 THEN (s[i] - 224) * 4096 + (s[i + 1] - 128) * 64
                         + (s[i + 2] - 128)
    ELSE (s[i] - 240) * 262144 + (s[i + 1] - 128) * 4096
           + (s[i + 2] - 128) * 64 + (s[i + 3] - 128)

\* bytes.decode('utf-8', errors='ignore'), from position i on: the code
\* points of the well-formed sequences
RECURSIVE DecodeIgnore(_, _)
DecodeIgnore(s, i) ==
    IF i > Len(s) THEN <<>>
    ELSE LET at == Utf8At(s, i)
         IN  (IF at.valid THEN <<CodePoint(s, i, at.bytes)>> ELSE <<>>)
                 \o DecodeIgnore(s, i + at.bytes)

RECURSIVE Utf8Valid(_, _)
Utf8Valid(s, i) ==
    i > Len(s) \/ (Utf8At(s, i).valid /\ Utf8Valid(s, i + Utf8At(s, i).bytes))

\* Text mode (newline=None): "\r\n" and "\r" are read as "\n".
RECURSIVE UniversalNewlines(_)
UniversalNewlines(t) ==
    IF t = <<>> THEN <<>>
    ELSE IF t[1] = 13
         THEN <<10>> \o UniversalNewlines(
                  IF Len(t) > 1 /\ t[2] = 10 THEN SubSeq(t, 3, Len(t))
                  ELSE Tail(t))
         ELSE <<t[1]>> \o UniversalNewlines(Tail(t))

\* open(path, 'r', encoding='utf-8').read(): the text, or UnicodeDecodeError
ReadText(data) ==
    IF Utf8Valid(data, 1) THEN Returned(UniversalNewlines(DecodeIgnore(data, 1)))
    ELSE Raised("UnicodeDecodeError")

\* self.encryption is None
NoEncryption == <<>>

\* What an extractor returns for the text: None, or the code points.
NoText == [none |-> TRUE, text |-> <<>>]
SomeText(t) == [none |-> FALSE, text |-> t]

extract_text_from_txtNoFallback(encryption, data) ==
    IF encryption # NoEncryption
    THEN LET decrypted == decrypt_stream(encryption, data)
         IN  IF decrypted.raises = "None"
             THEN SomeText(DecodeIgnore(decrypted.value, 1)) ELSE NoText
    ELSE LET read == ReadText(data)
         IN  IF read.raises = "None" THEN SomeText(read.value) ELSE NoText

\* extract_text_from_txt on a file's bytes: the text as code points, or None
extract_text_from_txt(encryption, data) ==
    LET decrypted == IF encryption = NoEncryption THEN Raised("None")
                     ELSE decrypt_stream(encryption, data)
        read == ReadText(data)
    IN  IF encryption # NoEncryption /\ decrypted.raises = "None"
        THEN SomeText(DecodeIgnore(decrypted.value, 1))
        ELSE IF read.raises = "None" THEN SomeText(read.value) ELSE NoText

\* str.strip() on code points
IsSpaceCode(c) == c \in {9, 10, 13, 32}
Strip(t) ==
    IF \A i \in DOMAIN t : IsSpaceCode(t[i]) THEN <<>>
    ELSE SubSeq(t, CHOOSE i \in DOMAIN t :
                       /\ ~IsSpaceCode(t[i])
                       /\ \A k \in 1..(i - 1) : IsSpaceCode(t[k]),
                   CHOOSE j \in DOMAIN t :
                       /\ ~IsSpaceCode(t[j])
                       /\ \A k \in (j + 1)..Len(t) : IsSpaceCode(t[k]))

\* The parsers are libraries (pdfplumber, pandas, openpyxl).  A document is
\* its format's signature followed by its text in UTF-8; any other bytes
\* make the parser raise.  OCR and QR decoding find nothing.
PdfSignature == <<37, 80, 68, 70>>
ZipSignature == <<80, 75>>
StartsWith(data, signature) ==
    /\ Len(data) >= Len(signature)
    /\ SubSeq(data, 1, Len(signature)) = signature

Body(data, signature) ==
    DecodeIgnore(SubSeq(data, Len(signature) + 1, Len(data)), 1)

\* extract_text_from_pdf on a file's bytes: (text, qr_data)
extract_text_from_pdf(encryption, data) ==
    LET decrypted == IF encryption = NoEncryption THEN Raised("None")
                     ELSE decrypt_stream(encryption, data)
        pdf_source == IF encryption # NoEncryption /\ decrypted.raises = "None"
                      THEN decrypted.value ELSE data
        text == Body(pdf_source, PdfSignature)
        full_text == IF text = <<>> THEN <<>> ELSE text \o <<10>>
    IN  IF StartsWith(pdf_source, PdfSignature)
        THEN <<SomeText(Strip(full_text)), None>>
        ELSE <<NoText, None>>

\* pd.read_csv(...).to_string(): the table printed with its row index; an
\* input without columns raises.
ReadCsvToString(text) ==
    IF Strip(text) = <<>> THEN Raised("EmptyDataError")
    ELSE Returned(<<32, 32>> \o Strip(text))

\* extract_text_from_excel on a file's bytes
extract_text_from_excel(encryption, suffix, data) ==
    LET decrypted == IF encryption = NoEncryption THEN Raised("None")
                     ELSE decrypt_stream(encryption, data)
        decrypted_bytes == IF encryption # NoEncryption
                              /\ decrypted.raises = "None"
                           THEN decrypted.value ELSE <<>>
        csv == IF decrypted_bytes # <<>>
               THEN ReadCsvToString(DecodeIgnore(decrypted_bytes, 1))
               ELSE IF Utf8Valid(data, 1)
                    THEN ReadCsvToString(DecodeIgnore(data, 1))
                    ELSE Raised("UnicodeDecodeError")
        workbook == IF decrypted_bytes # <<>> THEN decrypted_bytes ELSE data
    IN  IF suffix = ".csv"
        THEN IF csv.raises = "None" THEN SomeText(csv.value) ELSE NoText
        ELSE IF suffix \in {".xls", ".xlsx", ".xlsm", ".xlsb"}
        THEN IF StartsWith(workbook, ZipSignature)
             THEN SomeText(Body(workbook, ZipSignature)) ELSE NoText
        ELSE NoText

\* The files the extractors are handed: plain documents of the three
\* lengths decrypt_stream tells apart, one that is no UTF-8, and documents
\* encrypted under the first key.
Document(signature, n) ==
    signature \o [i \in 1..(n - Len(signature)) |-> 97 + (i % 2)]
ExtractFiles ==
    { Document(<<>>, GCM_IV_LENGTH - 2), Document(PdfSignature, GCM_IV_LENGTH - 2),
      Document(PdfSignature, GCM_IV_LENGTH + TagBytes - 2),
      Document(<<>>, GCM_IV_LENGTH + TagBytes + 2),
      Document(ZipSignature, GCM_IV_LENGTH + TagBytes + 2),
      <<104, 255, 105>>,
      encrypt_stream(Key(3), IV(0), ShortMessage),
      encrypt_stream(Key(3), IV(0), Document(PdfSignature, 6)),
      CorruptTag(encrypt_stream(Key(3), IV(0), ShortMessage)) }

Extractors == {"txt", "pdf", ".csv", ".xlsx"}
\* text, qr_data as process_single_document holds them after the call
Extract(extractor, encryption, data) ==
    IF extractor = "pdf"
    THEN [text |-> extract_text_from_pdf(encryption, data)[1],
          qr_data |-> extract_text_from_pdf(encryption, data)[2]]
    ELSE [text |-> IF extractor = "txt"
                   THEN extract_text_from_txt(encryption, data)
                   ELSE extract_text_from_excel(encryption, extractor, data),
          qr_data |-> None]

\* The extractors on these inputs, computed once.
Extracts ==
    [extractor \in Extractors, encryption \in Keys \cup {NoEncryption},
     data \in ExtractFiles |-> Extract(extractor, encryption, data)]

\* A call of an extract_text_from_* function on a file, by a processor with
\* or without an encryption key.
ExtractText(extractor, encryption, data) ==
    /\ Cardinality(returned) < MaxReturned
    /\ returned' = returned \cup
           {[op |-> "extract_text", extractor |-> extractor,
             encryption |-> encryption, data |-> data,
             decrypted |-> IF encryption = NoEncryption THEN Raised("None")
                           ELSE decrypt_stream(encryption, data),
             value |-> Extracts[extractor, encryption, data]]}
    /\ UNCHANGED <<document_data, document_details, failed_files, proc,
                   pollVars, results, processed, calls, last_outcome>>

NextExtract ==
    \E extractor \in Extractors, encryption \in Keys \cup {NoEncryption},
       data \in ExtractFiles : ExtractText(extractor, encryption, data)

\* The extractors on their own.
SpecExtract == Init /\ [][NextExtract]_vars

\* ------------------------------------------------------------- the poller
\* An id the canonical store has given to an insert that is not committed
\* yet: the row is in no SELECT's result.
Reserved == [file_name |-> <<>>, is_duplicate |-> NULL, document_id |-> NULL]

\* ORDER BY id ASC
RECURSIVE Ascending(_)
Ascending(ids) ==
    IF ids = {} THEN <<>>
    ELSE LET first == CHOOSE i \in ids : \A j \in ids : i <= j
         IN  <<first>> \o Ascending(ids \ {first})

\* ORDER BY id DESC
RECURSIVE Descending(_)
Descending(ids) ==
    IF ids = {} THEN <<>>
    ELSE LET first == CHOOSE i \in ids : \A j \in ids : i >= j
         IN  <<first>> \o Descending(ids \ {first})

get_new_entries_since_max_idDescending(details, current_max) ==
    Descending({i \in DOMAIN details :
                   i > current_max /\ details[i] # Reserved})

\* _get_new_entries_since_max_id: SELECT id, file_name FROM document_details
\* WHERE id > :max_id ORDER BY id ASC, as the list of ids
get_new_entries_since_max_id(details, current_max) ==
    Ascending({i \in DOMAIN details :
                  i > current_max /\ details[i] # Reserved})

PendingNames(pending) == {pending[k].file_name : k \in DOMAIN pending}

RECURSIVE QueueNewEntriesRefreshes(_, _, _, _)
QueueNewEntriesRefreshes(pending, details, new_entries, t) ==
    IF new_entries = <<>> THEN pending
    ELSE LET file_name == details[Head(new_entries)].file_name
         IN  QueueNewEntriesRefreshes(
                 IF file_name \in PendingNames(pending)
                 THEN [k \in DOMAIN pending |->
                         IF pending[k].file_name = file_name
                         THEN [pending[k] EXCEPT !.first_seen = t]
                         ELSE pending[k]]
                 ELSE Append(pending, [file_name |-> file_name,
                                       first_seen |-> t]),
                 details, Tail(new_entries), t)

\* Lines 174-179: a new entry is queued with the current time unless its
\* file name is pending already.
RECURSIVE QueueNewEntries(_, _, _, _)
QueueNewEntries(pending, details, new_entries, t) ==
    IF new_entries = <<>> THEN pending
    ELSE LET file_name == details[Head(new_entries)].file_name
         IN  QueueNewEntries(
                 IF file_name \in PendingNames(pending) THEN pending
                 ELSE Append(pending, [file_name |-> file_name,
                                       first_seen |-> t]),
                 details, Tail(new_entries), t)

\* The canonical store and the index as one call finds them: both up, the
\* id lookup failing (execute_sql_query logs the error and returns an empty
\* frame), an UPDATE failing (execute_sql logs and raises again), or the
\* index failing (sqlite3 raises).
Stores == {"up", "lookup_fails", "update_fails", "index_fails"}

\* What a call leaves behind under a store, and whether it raised, given
\* what it does, r, with both stores up: a failing index raises at the
\* SELECT by hash, before any statement changed a store; a failing UPDATE
\* raises after the statement on document_data was committed.
UnderStore(store, r, index, details, failed) ==
    IF store = "index_fails"
    THEN [index |-> index, details |-> details, failed |-> failed,
          outcome |-> "raised", hash |-> <<>>, raised |-> TRUE]
    ELSE IF store = "update_fails" /\ r.outcome \notin {"skipped", "failed"}
    THEN [index |-> r.index, details |-> details, failed |-> failed,
          outcome |-> "raised", hash |-> r.hash, raised |-> TRUE]
    ELSE [index |-> r.index, details |-> r.details, failed |-> r.failed,
          outcome |-> r.outcome, hash |-> r.hash, raised |-> FALSE]

\* process_single_document under such a store.  It has no except clause of
\* its own around the index and store statements (try ... finally:
\* conn.close()); a failing id lookup reaches it as None.
process_single_document_on(index, details, failed, file_name, doc_id, ex, store) ==
    UnderStore(store,
               process_single_document(index, details, failed, file_name,
                   IF store = "lookup_fails" THEN NULL ELSE doc_id, ex),
               index, details, failed)

AfterCallKeepsRaised(st, entry, t, doc_id, r) ==
    LET after == [index |-> r.index, details |-> r.details,
                  failed |-> r.failed, kept |-> st.kept,
                  outcome |-> r.outcome,
                  processed |->
                      IF r.hash = <<>> THEN st.processed
                      ELSE st.processed \cup
                             {[id |-> doc_id, hash |-> r.hash]},
                  calls |-> IF r.outcome \in {"skipped", "raised"}
                               /\ r.hash = <<>>
                            THEN st.calls ELSE st.calls + 1]
    IN  IF r.raised
        THEN [after EXCEPT !.kept = Append(@, entry)]
        ELSE after

\* Lines 192-206 for a pending entry found on disk, whose call for doc_id
\* left r: unless the call raised (line 197) the entry leaves the list; if
\* it raised, the entry leaves it once more than max_wait_time has elapsed.
\* st carries the stores and the entries kept so far.
AfterCall(st, entry, t, doc_id, r) ==
    LET after == [index |-> r.index, details |-> r.details,
                  failed |-> r.failed, kept |-> st.kept,
                  outcome |-> r.outcome,
                  processed |->
                      IF r.hash = <<>> THEN st.processed
                      ELSE st.processed \cup
                             {[id |-> doc_id, hash |-> r.hash]},
                  calls |-> IF r.outcome \in {"skipped", "raised"}
                               /\ r.hash = <<>>
                            THEN st.calls ELSE st.calls + 1]
    IN  IF r.raised /\ t - entry.first_seen <= max_wait_time
        THEN [after EXCEPT !.kept = Append(@, entry)]
        ELSE after

ExaminePendingDropsAtBound(st, entry, t, idOf, exOf, storeOf) ==
    IF entry.file_name \in disk
    THEN AfterCall(st, entry, t, idOf[entry.file_name],
             process_single_document_on(st.index, st.details, st.failed,
                 entry.file_name, idOf[entry.file_name],
                 exOf[entry.file_name], storeOf[entry.file_name]))
    ELSE IF t - entry.first_seen >= max_wait_time THEN st
    ELSE [st EXCEPT !.kept = Append(@, entry)]

\* Lines 183-206 for one pending entry: a file found on disk is processed;
\* a file not found leaves the list once more than max_wait_time has
\* elapsed.  idOf, exOf and storeOf give, per file name, what get_id_from_db
\* and the extractor return in this cycle and how the stores are during the
\* call.
ExaminePending(st, entry, t, idOf, exOf, storeOf) ==
    IF entry.file_name \in disk
    THEN AfterCall(st, entry, t, idOf[entry.file_name],
             process_single_document_on(st.index, st.details, st.failed,
                 entry.file_name, idOf[entry.file_name],
                 exOf[entry.file_name], storeOf[entry.file_name]))
    ELSE IF t - entry.first_seen > max_wait_time THEN st
    ELSE [st EXCEPT !.kept = Append(@, entry)]

RECURSIVE ScanPendingStopsAtRaise(_, _, _, _, _, _, _)
ScanPendingStopsAtRaise(st, pending, k, t, idOf, exOf, storeOf) ==
    IF k > Len(pending) THEN st
    ELSE IF /\ pending[k].file_name \in disk
            /\ storeOf[pending[k].file_name] \in {"update_fails", "index_fails"}
    THEN [ExaminePending(st, pending[k], t, idOf, exOf, storeOf)
            EXCEPT !.kept = st.kept \o SubSeq(pending, k, Len(pending))]
    ELSE ScanPendingStopsAtRaise(
             ExaminePending(st, pending[k], t, idOf, exOf, storeOf),
             pending, k + 1, t, idOf, exOf, storeOf)

\* Lines 182-210, from the k-th pending entry on.
RECURSIVE ScanPending(_, _, _, _, _, _, _)
ScanPending(st, pending, k, t, idOf, exOf, storeOf) ==
    IF k > Len(pending) THEN st
    ELSE ScanPending(ExaminePending(st, pending[k], t, idOf, exOf, storeOf),
                     pending, k + 1, t, idOf, exOf, storeOf)

\* What the extractors return for the files the poller finds: a text, a
\* blank text, or an exception.
PollExtractions ==
    {e \in Extractions : e.raises \/ (e.text \in {T1, Blank} /\ e.qr = None)}

\* What a file's call meets in a cycle: an extraction with the stores up, or
\* a text extracted and a store failing.
PollAnswers ==
    {[ex |-> e, store |-> "up"] : e \in PollExtractions}
      \cup {[ex |-> e, store |-> s] :
               e \in {e \in PollExtractions : e.text = T1},
               s \in Stores \ {"up"}}

\* One iteration of the loop of _poll_for_new_documents, in which the id
\* lookups, the extractors and the stores answer as idOf, exOf and storeOf
\* say for the files found on disk, and the query for new entries answers
\* or fails (execute_sql_query then returns an empty frame, and the cycle
\* goes on with no new entries).  counted tells whether the calls made are
\* added to the tally calls.
PollCycleDoes(query, idOf, exOf, storeOf, counted) ==
    LET new_entries == IF query = "fails" THEN <<>>
                       ELSE get_new_entries_since_max_id(document_details,
                                                         max_id)
        queued == QueueNewEntries(pending_files, document_details,
                                  new_entries, now)
    IN  /\ max_id' = IF new_entries = <<>> THEN max_id
                     ELSE new_entries[Len(new_entries)]
        /\ DOMAIN idOf = PendingNames(queued) \cap disk
        /\ \A n \in DOMAIN idOf :
               idOf[n] \in get_id_from_db(document_details, n)
        /\ LET st == ScanPending(
                         [index |-> document_data,
                          details |-> document_details,
                          failed |-> failed_files, kept |-> <<>>,
                          outcome |-> last_outcome,
                          processed |-> processed, calls |-> calls],
                         queued, 1, now, idOf, exOf, storeOf)
           IN  /\ document_data' = st.index
               /\ document_details' = st.details
               /\ failed_files' = st.failed
               /\ pending_files' = st.kept
               /\ processed' = st.processed
               /\ calls' = IF counted THEN st.calls ELSE calls
               /\ last_outcome' = st.outcome
        /\ UNCHANGED <<returned, proc, now, disk, results>>

\* An iteration, of the MaxCalls calls that are followed.
PollCycleOn(query, idOf, exOf, storeOf) ==
    /\ calls < MaxCalls
    /\ PollCycleDoes(query, idOf, exOf, storeOf, TRUE)

\* An iteration whose query for new entries is answered.
PollCycleAs(idOf, exOf, storeOf) == PollCycleOn("answers", idOf, exOf, storeOf)

\* The names of the pending files a cycle finds on disk.
FoundOnDisk ==
    PendingNames(QueueNewEntries(pending_files, document_details,
        get_new_entries_since_max_id(document_details, max_id), now))
      \cap disk

\* The same, in a cycle whose query for new entries fails.
PendingOnDisk == PendingNames(pending_files) \cap disk

PollCycle ==
    \/ \E idOf \in [FoundOnDisk -> DOMAIN document_details],
          answer \in [FoundOnDisk -> PollAnswers] :
           PollCycleAs(idOf, [n \in FoundOnDisk |-> answer[n].ex],
                       [n \in FoundOnDisk |-> answer[n].store])
    \/ \E idOf \in [PendingOnDisk -> DOMAIN document_details],
          answer \in [PendingOnDisk -> PollAnswers] :
           PollCycleOn("fails", idOf,
                       [n \in PendingOnDisk |-> answer[n].ex],
                       [n \in PendingOnDisk |-> answer[n].store])

\* Wall clock passes between two cycles.  Only differences of the clock are
\* used, so it is followed while a file is pending and at the instants around
\* the wait bound: max_wait_time after the start (a slow scan of the base
\* directories), then second by second (the sleep of the loop).
Tick ==
    /\ pending_files # <<>>
    /\ now < max_wait_time + MaxTicks - 1
    /\ now' = IF now = 0 THEN max_wait_time ELSE now + 1
    /\ UNCHANGED <<returned, last_outcome, document_data, document_details,
                   failed_files, proc, max_id, pending_files, disk, results,
                   processed, calls>>

\* The upload pipeline writes the file of a record under a base directory.
FileArrives(file_name) ==
    /\ file_name \notin disk
    /\ IdsNamed(document_details, file_name) # {}
    /\ disk' = disk \cup {file_name}
    /\ UNCHANGED <<returned, last_outcome, document_data, document_details,
                   failed_files, proc, max_id, pending_files, now, results,
                   processed, calls>>

\* An iteration of the loop that runs for as long as the engine does; its
\* calls are not tallied.
PollCycleForever ==
    \/ \E idOf \in [FoundOnDisk -> DOMAIN document_details],
          answer \in [FoundOnDisk -> PollAnswers] :
           PollCycleDoes("answers", idOf,
                         [n \in FoundOnDisk |-> answer[n].ex],
                         [n \in FoundOnDisk |-> answer[n].store], FALSE)
    \/ \E idOf \in [PendingOnDisk -> DOMAIN document_details],
          answer \in [PendingOnDisk -> PollAnswers] :
           PollCycleDoes("fails", idOf,
                         [n \in PendingOnDisk |-> answer[n].ex],
                         [n \in PendingOnDisk |-> answer[n].store], FALSE)

\* The iteration in which the query for new entries fails and every call
\* raises at its first index statement.
PollCycleRaising ==
    \E idOf \in [PendingOnDisk -> DOMAIN document_details] :
        PollCycleDoes("fails", idOf,
            [n \in PendingOnDisk |->
                CHOOSE e \in PollExtractions : ~e.raises /\ e.text = T1],
            [n \in PendingOnDisk |-> "index_fails"], FALSE)

\* The sleeps of the loop (lines 211 and 215) add up to more than
\* max_wait_time.  Only differences of the clock are used, so the clock is
\* followed while some pending entry is within its wait.
Wait ==
    /\ \E k \in DOMAIN pending_files :
           now - pending_files[k].first_seen <= max_wait_time
    /\ now' = now + max_wait_time + 1
    /\ UNCHANGED <<returned, last_outcome, document_data, document_details,
                   failed_files, proc, max_id, pending_files, disk, results,
                   processed, calls>>

\* The paths the watchdog observer reports as created under the base
\* directories: the uploads, and a file of a type the engine does not read.
WatchedPaths == PollNames \cup {<<"z", ".exe">>}

\* Lines 37-40: whether on_created prints "New document detected".
on_created(file_path) ==
    \E ext \in valid_extensions : file_path[2] = ext

OnCreatedProcesses(file_path) ==
    \E ex \in PollExtractions,
       doc_id \in get_id_from_db(document_details, file_path) :
        ProcessSingleDocumentAs(file_path, ex, doc_id)

\* DocumentHandler.on_created on the observer thread, for a created file:
\* the handler prints or returns, and the print is all it leaves behind.
OnCreated(file_path) ==
    /\ file_path \in disk \/ file_path \notin PollNames
    /\ Cardinality(returned) < MaxReturned
    /\ returned' = returned \cup
                     {[op |-> "on_created", file_path |-> file_path,
                       printed |-> on_created(file_path)]}
    /\ UNCHANGED <<document_data, document_details, failed_files, proc,
                   pollVars, results, processed, calls, last_outcome>>

\* The engine started on an empty canonical store.
InitPoll ==
    /\ document_data = <<>>
    /\ document_details = <<>>
    /\ failed_files = <<>>
    /\ proc = [p \in Procs |-> Idle]
    /\ max_id = update_max_id(document_details, 0)
    /\ pending_files = <<>>
    /\ now = 0
    /\ disk = {}
    /\ results = NoSearch
    /\ processed = {}
    /\ calls = 0
    /\ last_outcome = "none"
    /\ returned = {}

NextPoll ==
    \/ \E file_name \in PollNames :
          /\ IdsNamed(document_details, file_name) = {}
          /\ UploadRecord(file_name)
    \/ \E file_name \in PollNames : FileArrives(file_name)
    \/ Tick
    \/ PollCycle

\* The poller thread, the upload pipeline and the clock.  The pipeline gives
\* every upload a name of its own here; records that share a name are
\* followed under Spec.
SpecPoll == InitPoll /\ [][NextPoll]_vars

NextForever ==
    \/ \E file_name \in PollNames :
          /\ IdsNamed(document_details, file_name) = {}
          /\ UploadRecord(file_name)
    \/ \E file_name \in PollNames : FileArrives(file_name)
    \/ Wait
    \/ PollCycleForever

\* The poller thread scheduled fairly: `while not self.stop_polling` with a
\* sleep in either branch, so time passes and the loop comes round again,
\* whatever its query and its calls meet.  Fairness is asked of the iteration
\* in which they all fail, and of none in which a call succeeds.
SpecForever ==
    /\ InitPoll
    /\ [][NextForever]_vars
    /\ WF_vars(Wait)
    /\ WF_vars(PollCycleRaising)

NextWatch ==
    \/ \E file_name \in PollNames :
          /\ IdsNamed(document_details, file_name) = {}
          /\ UploadRecord(file_name)
    \/ \E file_name \in PollNames : FileArrives(file_name)
    \/ PollCycle
    \/ \E file_path \in WatchedPaths : OnCreated(file_path)

\* start_processing: the poller thread and the observer with its handler
\* (load_existing_documents is commented out, line 870), within the wait
\* bound of every upload.
SpecWatch == InitPoll /\ [][NextWatch]_vars

NextRequeue ==
    \/ /\ Len(document_details) < MaxId
       /\ \E file_name \in PollNames : UploadRecord(file_name)
    \/ Tick
    \/ PollCycle

\* The poller while the pipeline uploads under names it has used before and
\* no file has reached the base directories yet.
SpecRequeue == InitPoll /\ [][NextRequeue]_vars

\* The upload pipeline begins an insert: the canonical store gives the row
\* its id (AUTO_INCREMENT) before the row is committed.
BeginInsert ==
    /\ Len(document_details) < MaxId
    /\ document_details' = Append(document_details, Reserved)
    /\ UNCHANGED <<returned, last_outcome, document_data, failed_files, proc,
                   max_id, pending_files, now, disk, results, processed,
                   calls>>

\* The insert of the row with this id is committed: SELECTs return the row
\* from now on.  Inserts that run at the same time commit in any order.
CommitInsert(id) ==
    /\ id \in DOMAIN document_details
    /\ document_details[id] = Reserved
    /\ document_details' =
           [document_details EXCEPT ![id] =
               [file_name |-> RecordName(id), is_duplicate |-> NULL,
                document_id |-> NULL]]
    /\ UNCHANGED <<returned, last_outcome, document_data, failed_files, proc,
                   max_id, pending_files, now, disk, results, processed,
                   calls>>

\* A poll cycle with both stores up and a text in every file found.
PollCycleUp ==
    \E idOf \in [FoundOnDisk -> DOMAIN document_details] :
        PollCycleAs(idOf,
            [n \in FoundOnDisk |-> [raises |-> FALSE, text |-> T1,
                                    qr |-> None]],
            [n \in FoundOnDisk |-> "up"])

NextCommit ==
    \/ BeginInsert
    \/ \E id \in 1..MaxId : CommitInsert(id)
    \/ \E file_name \in RecordNames : FileArrives(file_name)
    \/ PollCycleUp

\* The poller beside an upload pipeline whose inserts overlap.
SpecCommit == InitPoll /\ [][NextCommit]_vars

\* ------------------------------------------------------------------ search
\* SQLite folds ASCII case in FTS5 tokens and in LIKE.
Lower(c) == IF c = "A" THEN "a" ELSE IF c = "B" THEN "b" ELSE c

\* The characters the FTS5 tokenizer keeps in a token: letters and digits.
IsTokenChar(c) == Lower(c) \in {Letters[i] : i \in DOMAIN Letters}

\* The tokens of a text: its maximal runs of token characters, case folded.
\* cur is the run being read.
RECURSIVE TokensFrom(_, _)
TokensFrom(s, cur) ==
    IF s = <<>> THEN (IF cur = <<>> THEN <<>> ELSE <<cur>>)
    ELSE IF IsTokenChar(Head(s))
         THEN TokensFrom(Tail(s), Append(cur, Lower(Head(s))))
         ELSE (IF cur = <<>> THEN <<>> ELSE <<cur>>) \o TokensFrom(Tail(s), <<>>)

Tokens(s) == TokensFrom(s, <<>>)

\* content MATCH '"query"': the query's tokens occur in the content, one
\* after the other; a phrase with no token matches nothing.
PhraseMatch(content, query) ==
    LET ct == Tokens(content)
        qt == Tokens(query)
    IN  /\ qt # <<>>
        /\ \E off \in 0..(Len(ct) - Len(qt)) :
               \A k \in DOMAIN qt : ct[off + k] = qt[k]

\* content LIKE pattern: % stands for any run of characters, _ for any one
\* character, every other character for itself in either case.
RECURSIVE LikeMatch(_, _)
LikeMatch(pattern, s) ==
    IF pattern = <<>> THEN s = <<>>
    ELSE IF Head(pattern) = "%"
         THEN \/ LikeMatch(Tail(pattern), s)
              \/ s # <<>> /\ LikeMatch(pattern, Tail(s))
         ELSE /\ s # <<>>
              /\ Head(pattern) = "_" \/ Lower(Head(pattern)) = Lower(Head(s))
              /\ LikeMatch(Tail(pattern), Tail(s))

wildcard_query(query) == <<"%">> \o query \o <<"%">>

\* The optional argument selected_files: not given (None), or a list of ids.
NotSelected == [given |-> FALSE, ids |-> <<>>]
Selected(ids) == [given |-> TRUE, ids |-> ids]

\* if selected_files: None and the empty list are both false.
Truthy(selected_files) == selected_files.given /\ selected_files.ids # <<>>

\* AND mysql_original_id IN (?, ...), present only for a true selected_files.
InSelected(row, selected_files) ==
    Truthy(selected_files) =>
        \E k \in DOMAIN selected_files.ids :
            selected_files.ids[k] = row.mysql_original_id

\* SELECT DISTINCT mysql_original_id, file_name
Distinct(index, rows) ==
    {[mysql_original_id |-> index[i].mysql_original_id,
      file_name |-> index[i].file_name] : i \in rows}

\* search_database: the phrase query, then the LIKE query when the phrase
\* query fetched no row.
search_database(index, query, selected_files) ==
    LET match_rows == {i \in DOMAIN index :
                          /\ PhraseMatch(index[i].content, query)
                          /\ InSelected(index[i], selected_files)}
        like_rows  == {i \in DOMAIN index :
                          /\ LikeMatch(wildcard_query(query), index[i].content)
                          /\ InSelected(index[i], selected_files)}
    IN  IF match_rows # {} THEN Distinct(index, match_rows)
        ELSE Distinct(index, like_rows)

\* The queries and the id lists the search endpoints are called with.
Queries == { <<"a", "b">>, <<"b", " ", "c">>, <<"a", "_">>, <<"B">> }
Filters == { NotSelected, Selected(<<>>), Selected(<<1>>), Selected(<<2, 3>>) }

\* A call of search_database; results keeps the call and what it returned.
SearchDatabase(query, selected_files) ==
    /\ results' = [searched |-> TRUE, query |-> query,
                   selected_files |-> selected_files,
                   rows |-> search_database(document_data, query,
                                            selected_files)]
    /\ UNCHANGED <<returned, last_outcome, document_data, document_details,
                   failed_files, proc, pollVars, processed, calls>>

NextSearch ==
    \/ /\ calls < MaxSideCalls
       /\ \E file_name \in PathNames, ex \in Extractions :
              ProcessSingleDocument(file_name, ex)
    \/ \E query \in Queries, selected_files \in Filters :
           SearchDatabase(query, selected_files)

\* Searches between calls of process_single_document.
SpecSearch == Init /\ [][NextSearch]_vars

\* ---------------------------------------------------- shared file names
\* The uploads' files are on disk before their records are written.
InitShared ==
    /\ document_data = <<>>
    /\ document_details = <<>>
    /\ failed_files = <<>>
    /\ proc = [p \in Procs |-> Idle]
    /\ max_id = update_max_id(document_details, 0)
    /\ pending_files = <<>>
    /\ now = 0
    /\ disk = PollNames
    /\ results = NoSearch
    /\ processed = {}
    /\ calls = 0
    /\ last_outcome = "none"
    /\ returned = {}

NextShared ==
    \/ /\ Len(document_details) < MaxId
       /\ \E file_name \in PollNames : UploadRecord(file_name)
    \/ PollCycleUp

\* The poller with the stores up, over records that may share a file name
\* (the same name uploaded again, or under two base directories).
SpecShared == InitShared /\ [][NextShared]_vars

\* ------------------------------------------ load_existing_documents
\* The orders in which rglob("*") can give the files of a directory tree.
Orders(files) ==
    {order \in [1..Cardinality(files) -> files] :
        \A i, j \in DOMAIN order : order[i] = order[j] => i = j}

\* Lines 245-249: process_single_document on the k-th file found and on
\* those after it; st carries the stores and the history of calls.
RECURSIVE LoadFrom(_, _, _, _, _)
LoadFrom(st, doc_files, k, idOf, exOf) ==
    IF k > Len(doc_files) THEN st
    ELSE LoadFrom(
             AfterCall(st, [file_name |-> doc_files[k], first_seen |-> 0], 0,
                 idOf[doc_files[k]],
                 process_single_document_on(st.index, st.details, st.failed,
                     doc_files[k], idOf[doc_files[k]], exOf[doc_files[k]],
                     "up")),
             doc_files, k + 1, idOf, exOf)

\* load_existing_documents over the files on disk with a valid extension,
\* found in the order doc_files.
load_existing_documents(doc_files, idOf, exOf) ==
    LoadFrom([index |-> document_data, details |-> document_details,
              failed |-> failed_files, kept |-> <<>>,
              outcome |-> last_outcome, processed |-> processed,
              calls |-> calls],
             doc_files, 1, idOf, exOf)

\* The stores and the history after load_existing_documents.
Loaded(st) ==
    /\ document_data' = st.index
    /\ document_details' = st.details
    /\ failed_files' = st.failed
    /\ processed' = st.processed
    /\ calls' = st.calls
    /\ last_outcome' = st.outcome

\* load_existing_documents when the extractors give exOf.
LoadExistingDocumentsAs(exOf) ==
    \E doc_files \in Orders({n \in disk : n[2] \in valid_extensions}) :
      \E idOf \in [disk -> DOMAIN document_details \cup {NULL}] :
        /\ \A n \in disk : idOf[n] \in get_id_from_db(document_details, n)
        /\ Loaded(load_existing_documents(doc_files, idOf, exOf))

\* load_existing_documents with the same text in every file.
LoadExistingDocuments ==
    LoadExistingDocumentsAs(
        [n \in disk |-> [raises |-> FALSE, text |-> T1, qr |-> None]])

\* ------------------------------------------------------------ get_instance
\* The class attribute DocumentProcessor._instance is kept in proc beside the
\* threads, under the name of the class: 0 is None, n the n-th instance
\* constructed.  A thread's obj is the instance it was handed.
Class == "DocumentProcessor"

Caller(pc) == [pc |-> pc, obj |-> 0]

Constructed == {r \in returned : r.op = "construct"}

\* A thread calls get_instance.
CallGetInstance(t) ==
    /\ proc[t].pc = "idle"
    /\ Cardinality({r \in returned : r.op = "return"}) < MaxReturned
    /\ proc' = [proc EXCEPT ![t].pc = "check"]
    /\ UNCHANGED <<document_data, document_details, failed_files, pollVars,
                   results, processed, calls, last_outcome, returned>>

\* Line 50: if not cls._instance
CheckInstance(t) ==
    /\ proc[t].pc = "check"
    /\ proc' = [proc EXCEPT ![t].pc = IF proc[Class].obj = 0
                                      THEN "construct" ELSE "return"]
    /\ UNCHANGED <<document_data, document_details, failed_files, pollVars,
                   results, processed, calls, last_outcome, returned>>

\* Line 51: cls._instance = cls(base_dirs, db_name, db_url, encryption_key)
ConstructInstance(t) ==
    /\ proc[t].pc = "construct"
    /\ LET n == Cardinality(Constructed) + 1
       IN  /\ proc' = [proc EXCEPT ![t].pc = "load", ![Class].obj = n]
           /\ returned' = returned \cup
                  {[op |-> "construct", instance |-> n, thread |-> t]}
    /\ max_id' = update_max_id(document_details, 0)
    /\ UNCHANGED <<document_data, document_details, failed_files,
                   pending_files, now, disk, results, processed, calls,
                   last_outcome>>

\* Line 52: cls._instance.load_existing_documents()
LoadInstance(t) ==
    /\ proc[t].pc = "load"
    /\ LoadExistingDocuments
    /\ proc' = [proc EXCEPT ![t].pc = "return"]
    /\ returned' = returned \cup
           {[op |-> "load", instance |-> proc[Class].obj, thread |-> t]}
    /\ UNCHANGED <<pollVars, results>>

\* Line 53: return cls._instance
ReturnInstance(t) ==
    /\ proc[t].pc = "return"
    /\ proc' = [proc EXCEPT ![t].pc = "idle", ![t].obj = proc[Class].obj]
    /\ returned' = returned \cup
           {[op |-> "return", instance |-> proc[Class].obj, thread |-> t]}
    /\ UNCHANGED <<document_data, document_details, failed_files, pollVars,
                   results, processed, calls, last_outcome>>

\* No instance yet, the canonical records uploaded and their files on disk.
InitSingleton ==
    /\ document_data = <<>>
    /\ document_details = UploadedStore
    /\ failed_files = <<>>
    /\ proc = [t \in Procs \cup {Class} |->
                  Caller(IF t = Class THEN "class" ELSE "idle")]
    /\ max_id = 0
    /\ pending_files = <<>>
    /\ now = 0
    /\ disk \in {{RecordName(1)}, {RecordName(1), RecordName(2)}}
    /\ results = NoSearch
    /\ processed = {}
    /\ calls = 0
    /\ last_outcome = "none"
    /\ returned = {}

NextSingleton ==
    \E t \in Procs :
        \/ CallGetInstance(t)
        \/ CheckInstance(t)
        \/ ConstructInstance(t)
        \/ LoadInstance(t)
        \/ ReturnInstance(t)

\* Threads that call get_instance at the same time, statement by statement.
SpecSingleton == InitSingleton /\ [][NextSingleton]_vars

\* ----------------------------------------------------------------- restart
\* What the files hold: one of two texts.
FileTexts ==
    {[raises |-> FALSE, text |-> T1, qr |-> None],
     [raises |-> FALSE, text |-> T3, qr |-> None]}

\* The engine is started again over the index and the canonical store as
\* the last run left them: get_instance constructs it and runs
\* load_existing_documents (lines 51-52).
Restart(exOf) ==
    /\ calls < MaxCalls
    /\ LoadExistingDocumentsAs(exOf)
    /\ max_id' = update_max_id(document_details, 0)
    /\ UNCHANGED <<proc, pending_files, now, disk, results, returned>>

\* The records uploaded, some of their files on disk, the index empty.
InitRestart ==
    /\ document_data = <<>>
    /\ document_details = UploadedStore
    /\ failed_files = <<>>
    /\ proc = [p \in Procs |-> Idle]
    /\ max_id = 0
    /\ pending_files = <<>>
    /\ now = 0
    /\ disk \in SUBSET RecordNames
    /\ results = NoSearch
    /\ processed = {}
    /\ calls = 0
    /\ last_outcome = "none"
    /\ returned = {}

NextRestart ==
    \/ \E exOf \in [disk -> FileTexts] : Restart(exOf)
    \/ \E file_name \in RecordNames : FileArrives(file_name)

\* Runs of the engine one after the other over persisted stores, with files
\* arriving while it is down.
SpecRestart == InitRestart /\ [][NextRestart]_vars

\* ---------------------------------------------------------------- chatbot
\* ChatbotProcessor (ai_chatbot_model.py; ai_model.py has the same
\* get_chat_history and clear_history).  main.py reaches the one instance
\* through get_instance; proc holds its attributes.  A line of a PDF is a
\* sequence of characters.  results is what the latest call returned, as a
\* list of lines: the list of get_chat_history, the response and the error
\* of chat, True or False of process_pdf, None of clear_history.
Chatbot == "ChatbotProcessor"

\* str.strip() of a line
StripLine(line) ==
    IF \A i \in DOMAIN line : IsSpace(line[i]) THEN <<>>
    ELSE SubSeq(line, CHOOSE i \in DOMAIN line :
                          /\ ~IsSpace(line[i])
                          /\ \A k \in 1..(i - 1) : IsSpace(line[k]),
                      CHOOSE j \in DOMAIN line :
                          /\ ~IsSpace(line[j])
                          /\ \A k \in (j + 1)..Len(line) : IsSpace(line[k]))

\* str.lower() of a line
LowerLine(line) == [i \in DOMAIN line |-> Lower(line[i])]

\* stripped_line.endswith("?")
EndsWithQuestionMark(line) == line # <<>> /\ line[Len(line)] = "?"

\* "\n".join(current_answer)
RECURSIVE JoinLines(_)
JoinLines(lines) ==
    IF lines = <<>> THEN <<>>
    ELSE IF Len(lines) = 1 THEN lines[1]
    ELSE lines[1] \o <<"\n">> \o JoinLines(Tail(lines))

\* self.qa_pairs[current_question.lower()] = "\n".join(current_answer).strip()
StoreAnswer(qa_pairs, current_question, current_answer) ==
    LET key == LowerLine(current_question)
        answer == StripLine(JoinLines(current_answer))
    IN  [q \in DOMAIN qa_pairs \cup {key} |->
            IF q = key THEN answer ELSE qa_pairs[q]]

\* The loop of process_pdf over the lines of the text, from line k on;
\* current_question is None before the first question.
RECURSIVE process_pdfFrom(_, _, _, _, _)
process_pdfFrom(self, lines, k, current_question, current_answer) ==
    IF k > Len(lines)
    THEN IF current_question # None
         THEN [self EXCEPT !.qa_pairs =
                   StoreAnswer(self.qa_pairs, current_question, current_answer)]
         ELSE self
    ELSE LET stripped_line == StripLine(lines[k])
         IN  IF EndsWithQuestionMark(stripped_line)
             THEN process_pdfFrom(
                      [self EXCEPT
                          !.qa_pairs =
                              IF current_question # None
                              THEN StoreAnswer(self.qa_pairs, current_question,
                                               current_answer)
                              ELSE self.qa_pairs,
                          !.stored_questions = Append(@, stripped_line)],
                      lines, k + 1, stripped_line, <<>>)
             ELSE IF current_question # None
             THEN process_pdfFrom(self, lines, k + 1, current_question,
                                  Append(current_answer, stripped_line))
             ELSE process_pdfFrom(self, lines, k + 1, current_question,
                                  current_answer)

\* process_pdf: a PDF that pdfplumber cannot read leaves the processor as it
\* was and returns False.
process_pdf(self, pdf) ==
    IF pdf.raises THEN [self |-> self, success |-> FALSE]
    ELSE [self |-> process_pdfFrom(self, pdf.lines, 1, None, <<>>),
          success |-> TRUE]

\* return self.stored_questions
get_chat_history(self) == self.stored_questions

\* self.history = []
clear_history(self) == [self EXCEPT !.history = <<>>]

\* The PDFs put into the Documentation directory.
Pdfs ==
    { [raises |-> FALSE, lines |-> << <<"A", "?">>, <<"a", "b">> >>],
      [raises |-> FALSE,
       lines |-> << <<"b">>, <<" ", "b", "?", " ">>, <<"a">>, <<"b">> >>],
      [raises |-> FALSE, lines |-> << <<"a">> >>],
      [raises |-> TRUE, lines |-> <<>>] }

Greeting == <<"h", "i">>
Messages == {Greeting, <<"A", "?">>, <<"c">>}

\* chat: the question find_best_match returns is the choice of the
\* embedding model, among the stored questions or None; with no
\* stored question it is None.
chat(self, message, matched_question) ==
    IF LowerLine(message) = Greeting
    THEN [response |-> <<"greeting">>, error |-> None]
    ELSE IF matched_question # None
    THEN LET key == StripLine(LowerLine(matched_question))
         IN  IF key \in DOMAIN self.qa_pairs /\ self.qa_pairs[key] # <<>>
             THEN [response |->
                       [i \in DOMAIN self.qa_pairs[key] |->
                           IF self.qa_pairs[key][i] = "\n" THEN " "
                           ELSE self.qa_pairs[key][i]],
                   error |-> None]
             ELSE [response |-> <<"no answer">>, error |-> <<"True">>]
    ELSE [response |-> <<"no match">>, error |-> <<"True">>]

ChatFrame ==
    UNCHANGED <<document_data, document_details, failed_files, pollVars,
                processed, returned>>

\* The /chat/upload route: process_pdf on the uploaded file.
ProcessPdf(pdf) ==
    /\ calls < MaxCalls
    /\ LET r == process_pdf(proc[Chatbot], pdf)
       IN  /\ proc' = [proc EXCEPT ![Chatbot] = r.self]
           /\ results' = <<IF r.success THEN <<"True">> ELSE <<"False">>>>
    /\ calls' = calls + 1
    /\ last_outcome' = "process_pdf"
    /\ ChatFrame

\* The /chat/message route.
Chat(message) ==
    /\ \E matched_question \in
              {proc[Chatbot].stored_questions[i] :
                   i \in DOMAIN proc[Chatbot].stored_questions} \cup {None} :
          LET r == chat(proc[Chatbot], message, matched_question)
          IN  results' = <<r.response, r.error>>
    /\ last_outcome' = "chat"
    /\ UNCHANGED <<proc, calls>>
    /\ ChatFrame

\* The /chat/clear route.
ClearHistory ==
    /\ proc' = [proc EXCEPT ![Chatbot] = clear_history(@)]
    /\ results' = <<None>>
    /\ last_outcome' = "clear_history"
    /\ UNCHANGED calls
    /\ ChatFrame

\* The /chat/history route.
GetChatHistory ==
    /\ results' = get_chat_history(proc[Chatbot])
    /\ last_outcome' = "get_chat_history"
    /\ UNCHANGED <<proc, calls>>
    /\ ChatFrame

\* The instance as __init__ leaves it over an empty Documentation directory;
\* no attribute history exists yet.
InitChat ==
    /\ document_data = <<>>
    /\ document_details = <<>>
    /\ failed_files = <<>>
    /\ proc = [c \in {Chatbot} |->
                  [stored_questions |-> <<>>, qa_pairs |-> <<>>,
                   history |-> None]]
    /\ max_id = 0
    /\ pending_files = <<>>
    /\ now = 0
    /\ disk = {}
    /\ results = <<None>>
    /\ processed = {}
    /\ calls = 0
    /\ last_outcome = "none"
    /\ returned = {}

NextChat ==
    \/ \E pdf \in Pdfs : ProcessPdf(pdf)
    \/ \E message \in Messages : Chat(message)
    \/ ClearHistory
    \/ GetChatHistory

\* The chat routes of main.py, called in any order.
SpecChat == InitChat /\ [][NextChat]_vars

\* --------------------------------------------------------- clean_database
\* Mutant of clean_database: the entries lose their original id and stay.
clean_databaseDetaches(index) == [i \in DOMAIN index |-> [index[i] EXCEPT !.mysql_original_id = NULL]]

\* DELETE FROM document_data; conn.commit()
clean_database(index) == <<>>

\* A call of clean_database (the /clean-database route of main.py).
CleanDatabase ==
    /\ document_data' = clean_database(document_data)
    /\ UNCHANGED <<returned, last_outcome, document_details, failed_files,
                   proc, pollVars, results, processed, calls>>

NextReset ==
    \/ \E file_name \in PollNames :
          /\ IdsNamed(document_details, file_name) = {}
          /\ UploadRecord(file_name)
    \/ \E file_name \in PollNames : FileArrives(file_name)
    \/ PollCycleUp
    \/ /\ calls < MaxSideCalls
       /\ \E file_name \in PollNames, ex \in PollExtractions :
              ProcessSingleDocument(file_name, ex)
    \/ SearchDatabase(<<"a", "b">>, NotSelected)
    \/ CleanDatabase

\* The poller with both stores up, calls of process_single_document from
\* elsewhere (which the extractors may fail), searches and
\* resets of the index, in any order.
SpecReset == InitPoll /\ [][NextReset]_vars

\* ------------------------------------------------- threads and max_id_lock
\* The thread that constructs the engine, and the threads start_processing
\* starts (line 874); each call of it starts one, and nothing stops a second
\* call.  proc gives each thread its place in the code, whether it holds
\* max_id_lock, and its locals: current_max, new_entries, and, for a poller,
\* the dict pending_files of line 168.
Main == "main"
Threads == Procs \cup {Main}

Thread(pc) ==
    [pc |-> pc, holds |-> FALSE, current_max |-> 0, new_entries |-> <<>>,
     pending_files |-> <<>>]

LockAcquirableAlways(thr) == TRUE

\* threading.Lock: `with self.max_id_lock` goes on when no thread holds it.
LockAcquirable(thr) == \A u \in DOMAIN thr : ~thr[u].holds

\* The record of a read or write of max_id or of a pending_files dict: the
\* line, the thread, the thread whose poller function owns the dict, and
\* whether the thread held max_id_lock.
Access(var, line, thread, owner) ==
    [op |-> "access", var |-> var, line |-> line, thread |-> thread,
     owner |-> owner, locked |-> proc[thread].holds]

LockFrame ==
    UNCHANGED <<document_data, document_details, failed_files, pending_files,
                now, disk, results, processed, calls, last_outcome>>

\* Line 65: self.max_id = 0
InitMaxId ==
    /\ proc[Main].pc = "init"
    /\ max_id' = 0
    /\ returned' = returned \cup {Access("max_id", 65, Main, Main)}
    /\ proc' = [proc EXCEPT ![Main].pc = "update"]
    /\ LockFrame

\* Lines 117-126 of _update_max_id, called at line 82: the query, and
\* `with self.max_id_lock` if it gave a maximum.
UpdateQuery ==
    /\ proc[Main].pc = "update"
    /\ IF document_details = <<>>
       THEN proc' = [proc EXCEPT ![Main].pc = "constructed"]
       ELSE /\ LockAcquirable(proc)
            /\ proc' = [proc EXCEPT ![Main].pc = "write",
                                    ![Main].holds = TRUE,
                                    ![Main].current_max =
                                        update_max_id(document_details,
                                                      max_id)]
    /\ UNCHANGED <<max_id, returned>>
    /\ LockFrame

\* Line 128, and the end of the with block.
UpdateWrite ==
    /\ proc[Main].pc = "write"
    /\ max_id' = proc[Main].current_max
    /\ returned' = returned \cup {Access("max_id", 128, Main, Main)}
    /\ proc' = [proc EXCEPT ![Main].pc = "constructed",
                            ![Main].holds = FALSE]
    /\ LockFrame

\* start_processing on the constructed engine: the thread starts at line 168.
StartPolling(t) ==
    /\ proc[Main].pc = "constructed"
    /\ proc[t].pc = "unstarted"
    /\ proc' = [proc EXCEPT ![t] = Thread("loop")]
    /\ UNCHANGED <<max_id, returned>>
    /\ LockFrame

\* Line 139: with self.max_id_lock
AcquireToRead(t) ==
    /\ proc[t].pc = "loop"
    /\ LockAcquirable(proc)
    /\ proc' = [proc EXCEPT ![t].pc = "read", ![t].holds = TRUE]
    /\ UNCHANGED <<max_id, returned>>
    /\ LockFrame

\* Line 140, and the end of the with block.
ReadMaxId(t) ==
    /\ proc[t].pc = "read"
    /\ returned' = returned \cup {Access("max_id", 140, t, Main)}
    /\ proc' = [proc EXCEPT ![t].pc = "query", ![t].holds = FALSE,
                            ![t].current_max = max_id]
    /\ UNCHANGED max_id
    /\ LockFrame

\* Lines 149-159: the query for new entries, answered.
QueryNewEntries(t) ==
    /\ proc[t].pc = "query"
    /\ LET new_entries == get_new_entries_since_max_id(document_details,
                                                       proc[t].current_max)
       IN  proc' = [proc EXCEPT ![t].new_entries = new_entries,
                                ![t].pc = IF new_entries = <<>> THEN "queue"
                                          ELSE "latest"]
    /\ UNCHANGED <<max_id, returned>>
    /\ LockFrame

\* Line 155: with self.max_id_lock
AcquireToWrite(t) ==
    /\ proc[t].pc = "latest"
    /\ LockAcquirable(proc)
    /\ proc' = [proc EXCEPT ![t].pc = "write", ![t].holds = TRUE]
    /\ UNCHANGED <<max_id, returned>>
    /\ LockFrame

\* Line 156, and the end of the with block.
WriteMaxId(t) ==
    /\ proc[t].pc = "write"
    /\ max_id' = proc[t].new_entries[Len(proc[t].new_entries)]
    /\ returned' = returned \cup {Access("max_id", 156, t, Main)}
    /\ proc' = [proc EXCEPT ![t].pc = "queue", ![t].holds = FALSE]
    /\ LockFrame

\* Lines 174-179: the new entries are queued in the thread's pending_files.
QueuePending(t) ==
    /\ proc[t].pc = "queue"
    /\ returned' = returned \cup {Access("pending_files", 177, t, t)}
    /\ proc' = [proc EXCEPT ![t].pc = "scan",
                            ![t].new_entries = <<>>,
                            ![t].pending_files =
                                QueueNewEntries(@, document_details,
                                    proc[t].new_entries, now)]
    /\ UNCHANGED max_id
    /\ LockFrame

\* Lines 182-211: the scan of the thread's pending_files, with the stores up
\* and a text in every file found.
ScanOwnPending(t) ==
    /\ proc[t].pc = "scan"
    /\ \E idOf \in [PendingNames(proc[t].pending_files) \cap disk
                      -> DOMAIN document_details] :
         /\ \A n \in DOMAIN idOf :
                idOf[n] \in get_id_from_db(document_details, n)
         /\ LET st == ScanPending(
                          [index |-> document_data,
                           details |-> document_details,
                           failed |-> failed_files, kept |-> <<>>,
                           outcome |-> last_outcome,
                           processed |-> processed, calls |-> calls],
                          proc[t].pending_files, 1, now, idOf,
                          [n \in DOMAIN idOf |->
                              [raises |-> FALSE, text |-> T1, qr |-> None]],
                          [n \in DOMAIN idOf |-> "up"])
            IN  /\ document_data' = st.index
                /\ document_details' = st.details
                /\ failed_files' = st.failed
                /\ processed' = st.processed
                /\ calls' = st.calls
                /\ last_outcome' = st.outcome
                /\ proc' = [proc EXCEPT ![t].pc = "loop",
                                        ![t].pending_files = st.kept]
    /\ returned' = returned \cup {Access("pending_files", 183, t, t),
                                  Access("pending_files", 210, t, t)}
    /\ UNCHANGED <<max_id, pending_files, now, disk, results>>

\* The engine about to be constructed over a canonical store that is empty
\* or holds one record, with the uploads' files on disk.  max_id is not yet
\* an attribute.
InitLock ==
    /\ document_data = <<>>
    /\ document_details \in
         {<<>>, <<[file_name |-> RecordName(1), is_duplicate |-> NULL,
                   document_id |-> NULL]>>}
    /\ failed_files = <<>>
    /\ proc = [t \in Threads |->
                  Thread(IF t = Main THEN "init" ELSE "unstarted")]
    /\ max_id = NULL
    /\ pending_files = <<>>
    /\ now = 0
    /\ disk = PollNames
    /\ results = NoSearch
    /\ processed = {}
    /\ calls = 0
    /\ last_outcome = "none"
    /\ returned = {}

NextLock ==
    \/ InitMaxId
    \/ UpdateQuery
    \/ UpdateWrite
    \/ \E t \in Procs :
          \/ StartPolling(t)
          \/ AcquireToRead(t)
          \/ ReadMaxId(t)
          \/ QueryNewEntries(t)
          \/ AcquireToWrite(t)
          \/ WriteMaxId(t)
          \/ QueuePending(t)
          \/ ScanOwnPending(t)
    \/ \E file_name \in PollNames :
          /\ IdsNamed(document_details, file_name) = {}
          /\ UploadRecord(file_name)

\* The construction of the engine and its poller threads, statement by
\* statement around max_id_lock.
SpecLock == InitLock /\ [][NextLock]_vars

\* ------------------------------------------------- corrupted index entries
\* The index file is damaged from outside the engine: an entry loses its
\* original id (the "Corrupted FTS row (NULL original)" of line 723).
CorruptEntry(i) ==
    /\ document_data[i].mysql_original_id # NULL
    /\ document_data' = [document_data EXCEPT ![i].mysql_original_id = NULL]
    /\ UNCHANGED <<returned, last_outcome, document_details, failed_files,
                   proc, pollVars, results, processed, calls>>

NextRepair ==
    \/ /\ calls < MaxSideCalls
       /\ \E file_name \in PathNames, ex \in Extractions :
              ProcessSingleDocument(file_name, ex)
    \/ \E i \in DOMAIN document_data : CorruptEntry(i)

\* Calls one at a time over an index whose entries can lose their original id.
SpecRepair == Init /\ [][NextRepair]_vars

\* ------------------------------------------------------- document scaler
\* DocumentScaler: a path is <<directory, stem, suffix>>.  "base" is
\* self.base_path, "sub" a folder below it, "out" a folder elsewhere; a
\* path with directory "" is a bare file name.
IMAGE_FORMATS == {".png", ".jpg", ".jpeg", ".bmp", ".gif", ".tiff", ".webp"}
WORD_FORMATS  == {".docx", ".doc", ".docm", ".dotx", ".dotm"}
PDF_FORMATS   == {".pdf"}
SUPPORTED_FORMATS == PDF_FORMATS \cup IMAGE_FORMATS \cup WORD_FORMATS

\* The files a file system can hold when scale_file is called.
ScaleFiles ==
    { <<"base", "a", ".pdf">>, <<"sub", "b", ".PNG">>,
      <<"out", "c", ".docx">>, <<"base", "d", ".xyz">> }

\* The file_path arguments: the files by their full path and by their bare
\* name, and a path in a folder that does not exist.
ScaleRequests ==
    ScaleFiles \cup {<<"", f[2], f[3]>> : f \in ScaleFiles}
        \cup {<<"gone", "a", ".pdf">>}

\* The scale_type arguments.
ScaleTypes == {0, 1, 2, -1}

\* _find_file(file_path, base_path) on the files that exist: the path or
\* None.  An absolute path that exists is returned; otherwise its name is
\* looked up in the base directory, then below it (rglob).
find_file(files, file_path) ==
    IF file_path[1] # "" /\ file_path \in files THEN file_path
    ELSE IF <<"base", file_path[2], file_path[3]>> \in files
    THEN <<"base", file_path[2], file_path[3]>>
    ELSE IF <<"sub", file_path[2], file_path[3]>> \in files
    THEN <<"sub", file_path[2], file_path[3]>>
    ELSE None

\* file_path_obj.suffix.lower()
SuffixLower(suffix) ==
    IF suffix = ".PNG" THEN ".png"
    ELSE IF suffix = ".PDF" THEN ".pdf"
    ELSE suffix

scale_fileLooksFirst(files, file_path, scale_type) ==
    LET file_path_obj == find_file(files, file_path)
    IN  IF file_path_obj = None
        THEN [raises |-> "FileNotFoundError", value |-> None, written |-> {}]
        ELSE IF scale_type \notin {0, 1}
        THEN [raises |-> "ValueError", value |-> None, written |-> {}]
        ELSE IF SuffixLower(file_path_obj[3]) \notin SUPPORTED_FORMATS
        THEN [raises |-> "ValueError", value |-> None, written |-> {}]
        ELSE [raises |-> "None", value |-> file_path_obj,
              written |-> {file_path_obj}]

\* scale_file(file_path, scale_type): the exception or the returned path,
\* and the files written.  The scaled document overwrites the file found
\* (output_path = file_path_obj).
scale_file(files, file_path, scale_type) ==
    LET file_path_obj == find_file(files, file_path)
    IN  IF scale_type \notin {0, 1}
        THEN [raises |-> "ValueError", value |-> None, written |-> {}]
        ELSE IF file_path_obj = None
        THEN [raises |-> "FileNotFoundError", value |-> None, written |-> {}]
        ELSE IF SuffixLower(file_path_obj[3]) \notin SUPPORTED_FORMATS
        THEN [raises |-> "ValueError", value |-> None, written |-> {}]
        ELSE [raises |-> "None", value |-> file_path_obj,
              written |-> {file_path_obj}]

\* A call of scale_file.
ScaleFile(file_path, scale_type) ==
    /\ Cardinality(returned) < MaxReturned
    /\ returned' = returned \cup
           {[op |-> "scale_file", file_path |-> file_path,
             scale_type |-> scale_type,
             result |-> scale_file(disk, file_path, scale_type)]}
    /\ UNCHANGED <<document_data, document_details, failed_files, proc,
                   pollVars, results, processed, calls, last_outcome>>

\* A scaler over a file system that holds some of the files.
InitScale ==
    /\ document_data = <<>>
    /\ document_details = <<>>
    /\ failed_files = <<>>
    /\ proc = [p \in Procs |-> Idle]
    /\ max_id = 0
    /\ pending_files = <<>>
    /\ now = 0
    /\ disk \in SUBSET ScaleFiles
    /\ results = NoSearch
    /\ processed = {}
    /\ calls = 0
    /\ last_outcome = "none"
    /\ returned = {}

NextScale ==
    \E file_path \in ScaleRequests, scale_type \in ScaleTypes :
        ScaleFile(file_path, scale_type)

SpecScale == InitScale /\ [][NextScale]_vars

\* ------------------------------------------------------------ properties
Ids == 1..MaxId

Min(S) == CHOOSE m \in S : \A n \in S : m <= n

Hashes == {p.hash : p \in processed}

IdsWithHash(h) == {p.id : p \in {q \in processed : q.hash = h}}

EntriesWithHash(h) == {i \in DOMAIN document_data : document_data[i].hash = h}

IsOriginal(id) ==
    /\ document_details[id].is_duplicate = 0
    /\ document_details[id].document_id = NULL

IsDuplicateOf(id, original_id) ==
    /\ document_details[id].is_duplicate = 1
    /\ document_details[id].document_id = original_id

\* Every call so far was for another record: each processed id was processed
\* exactly once.
EachProcessedOnce ==
    /\ calls = Cardinality(processed)
    /\ \A p, q \in processed : p.id = q.id => p = q

\* C1: after any sequence of process_single_document calls run one at a
\* time from an empty index, no two index entries have the same content hash.
DedupUniqueness ==
    \A i, j \in DOMAIN document_data :
        document_data[i].hash = document_data[j].hash => i = j

\* Two records with the same content were processed and the index holds
\* entries for two different contents.
DedupUniquenessWitness ==
    /\ Len(document_data) >= 2
    /\ \E p, q \in processed : p.id # q.id /\ p.hash = q.hash

\* C2: when two calls for two documents with identical content run
\* concurrently, at most one of them takes the insert branch, and the index
\* never holds entries of both documents for the one hash.
SingleInsertPerHash ==
    /\ \A p, q \in Procs :
          ( /\ proc[p].pc = "indexed" /\ proc[q].pc = "indexed"
            /\ proc[p].doc_id # proc[q].doc_id
            /\ hash_value(proc[p].text, proc[p].qr_data)
                   = hash_value(proc[q].text, proc[q].qr_data) )
          => ~(proc[p].row = <<>> /\ proc[q].row = <<>>)
    /\ \A i, j \in DOMAIN document_data :
          document_data[i].hash = document_data[j].hash
              => document_data[i].file_name = document_data[j].file_name

\* C3: when exactly two records a < b with identical content have been
\* processed, once each and in either order, the index entry of that content
\* names a, a is marked original and b is marked duplicate of a.
TieBreakDeterminism ==
    \A a, b \in Ids : \A h \in Hashes :
        ( /\ a < b
          /\ processed = {[id |-> a, hash |-> h], [id |-> b, hash |-> h]}
          /\ calls = 2 )
        => /\ Cardinality(EntriesWithHash(h)) = 1
           /\ \A i \in EntriesWithHash(h) :
                  document_data[i].mysql_original_id = a
           /\ IsOriginal(a)
           /\ IsDuplicateOf(b, a)

\* b was processed first and inserted, then a re-pointed the entry to itself.
TieBreakWitness ==
    \E a, b \in Ids : \E h \in Hashes :
        /\ a < b
        /\ processed = {[id |-> a, hash |-> h], [id |-> b, hash |-> h]}
        /\ calls = 2
        /\ \E i \in EntriesWithHash(h) :
               /\ document_data[i].file_name = RecordName(b)
               /\ document_data[i].mysql_original_id = a

\* The records of ids processed in ascending id order from the empty index,
\* each with a text of hash h.
RECURSIVE InAscendingOrder(_, _, _, _)
InAscendingOrder(index, details, ids, ex) ==
    IF ids = {} THEN [index |-> index, details |-> details]
    ELSE LET d == Min(ids)
             r == ResolveDuplicate(index, details, RecordName(d), d,
                                   ex.text, ex.qr)
         IN  InAscendingOrder(r.index, r.details, ids \ {d}, ex)

\* C4: when three or more records with identical content have each been
\* processed exactly once, every record's is_duplicate and document_id and
\* the entry's original_id are what processing them in ascending id order
\* gives, whatever the order was.
OrderIndependence ==
    \A h \in Hashes :
        ( /\ Cardinality(IdsWithHash(h)) >= 3
          /\ processed = {[id |-> d, hash |-> h] : d \in IdsWithHash(h)}
          /\ calls = Cardinality(processed) )
        => LET ex  == CHOOSE e \in Extractions :
                          ~e.raises /\ ~text_is_empty(e.text)
                              /\ hash_value(e.text, e.qr) = h
               ref == InAscendingOrder(<<>>, UploadedStore, IdsWithHash(h), ex)
           IN  /\ \A d \in Ids :
                     /\ document_details[d].is_duplicate
                            = ref.details[d].is_duplicate
                     /\ document_details[d].document_id
                            = ref.details[d].document_id
               /\ {document_data[i].mysql_original_id :
                       i \in DOMAIN document_data}
                    = {ref.index[i].mysql_original_id : i \in DOMAIN ref.index}

\* C5: once the records sharing a fingerprint have each been processed once,
\* the lowest id of the group is its only record with is_duplicate = 0 and
\* every other record of the group is a duplicate pointing at that lowest id.
LowestIsOriginal ==
    EachProcessedOnce =>
        \A h \in Hashes :
            LET lowest == Min(IdsWithHash(h))
            IN  /\ IsOriginal(lowest)
                /\ \A d \in IdsWithHash(h) \ {lowest} : IsDuplicateOf(d, lowest)

\* C6: between calls, every index entry's original_id is the lowest id among
\* the documents processed so far with the entry's hash.
EntryNamesLowestId ==
    \A i \in DOMAIN document_data :
        document_data[i].mysql_original_id
            = Min(IdsWithHash(document_data[i].hash))

\* C7: a call for a document with canonical id d whose hash h has an index
\* entry with a NULL original_id sets that entry's original_id to d, marks
\* record d original (is_duplicate = 0, document_id NULL) and inserts no entry.
SelfHealing ==
    [][ \A d \in Ids, ex \in Extractions :
          LET file_name == document_details[d].file_name
              e == Extracted(file_name, ex)
              h == hash_value(e.text, e.qr)
          IN  ( /\ calls' = calls + 1
                /\ ~e.raises /\ ~text_is_empty(e.text)
                /\ \E i \in EntriesWithHash(h) :
                       document_data[i].mysql_original_id = NULL
                /\ ProcessSingleDocumentAs(file_name, ex, d) )
              => /\ Len(document_data') = Len(document_data)
                 /\ \A i \in EntriesWithHash(h) :
                        /\ document_data'[i].mysql_original_id = d
                        /\ document_data'[i].hash = h
                 /\ document_details'[d].is_duplicate = 0
                 /\ document_details'[d].document_id = NULL
      ]_vars

\* An entry inserted for one record now names a higher id as a marked
\* original: only the repair of a NULL original_id raises an entry's id.
SelfHealingWitness ==
    \E i \in DOMAIN document_data : \E k \in Ids :
        /\ document_data[i].file_name = RecordName(k)
        /\ document_data[i].mysql_original_id > k
        /\ IsOriginal(document_data[i].mysql_original_id)

\* C8: a pending record whose file is not on disk when more than the
\* abandonment threshold has elapsed leaves Pending Arrivals in that poll
\* cycle, and every file name that leaves Pending Arrivals without having
\* been found on disk is in the Failed File Log.
AbandonedIsLogged ==
    [][ \A k \in DOMAIN pending_files :
          LET file_name == pending_files[k].file_name
          IN  /\ ( /\ file_name \notin disk
                   /\ now - pending_files[k].first_seen > max_wait_time
                   /\ PollCycle )
                  => file_name \notin PendingNames(pending_files')
              /\ ( /\ file_name \notin disk
                   /\ file_name \notin PendingNames(pending_files') )
                  => file_name \in Range(failed_files')
      ]_vars

\* The rows of the index whose content holds the query as a substring, in
\* either case.
Contains(content, query) ==
    \E off \in 0..(Len(content) - Len(query)) :
        \A k \in DOMAIN query : Lower(content[off + k]) = Lower(query[k])

\* An id filter that was given admits exactly the ids of its list.
Admits(selected_files, id) ==
    selected_files.given =>
        \E k \in DOMAIN selected_files.ids : selected_files.ids[k] = id

PhraseRows(index, query, selected_files) ==
    Distinct(index, {i \in DOMAIN index :
                        /\ PhraseMatch(index[i].content, query)
                        /\ Admits(selected_files, index[i].mysql_original_id)})

SubstringRows(index, query, selected_files) ==
    Distinct(index, {i \in DOMAIN index :
                        /\ Contains(index[i].content, query)
                        /\ Admits(selected_files, index[i].mysql_original_id)})

\* C9: search_database returns the exact-phrase rows whenever there is at
\* least one, and otherwise exactly the rows whose content holds the query
\* as a substring, restricted to the id filter when one is given.
PhraseThenSubstring ==
    results.searched =>
        LET phrase == PhraseRows(document_data, results.query,
                                 results.selected_files)
        IN  results.rows =
                IF phrase # {} THEN phrase
                ELSE SubstringRows(document_data, results.query,
                                   results.selected_files)

\* C10: when an id filter is supplied, the empty list included, every
\* returned row has its mysql_original_id in the list.
FilterRestrictsResults ==
    (results.searched /\ results.selected_files.given) =>
        \A row \in results.rows :
            \E k \in DOMAIN results.selected_files.ids :
                results.selected_files.ids[k] = row.mysql_original_id

\* The positions of a text's characters that are not whitespace.
Inked(text) ==
    SelectSeq([i \in DOMAIN text |-> i], LAMBDA i : ~IsSpace(text[i]))

\* Two texts differ at most in the length or kind of their whitespace runs
\* and in leading or trailing whitespace: the same characters apart from
\* whitespace, separated by whitespace at the same places.
SameUpToWhitespace(t, u) ==
    LET pt == Inked(t)
        pu == Inked(u)
    IN  /\ Len(pt) = Len(pu)
        /\ \A k \in DOMAIN pt :
              /\ t[pt[k]] = u[pu[k]]
              /\ k > 1 => (pt[k] - pt[k - 1] > 1 <=> pu[k] - pu[k - 1] > 1)

\* Where two texts of the same letters differ in letter case.
CaseDifferences(t, u) ==
    IF Len(t) = Len(u) /\ \A i \in DOMAIN t : Lower(t[i]) = Lower(u[i])
    THEN {i \in DOMAIN t : t[i] # u[i]}
    ELSE {}

\* The position character i of a text has once its whitespace runs are
\* single spaces and the text is trimmed.
NormalizedPosition(text, i) ==
    Cardinality({j \in 1..i : ~IsSpace(text[j])})
      + Cardinality({j \in 2..i : /\ ~IsSpace(text[j]) /\ IsSpace(text[j - 1])
                                  /\ \E k \in 1..(j - 1) : ~IsSpace(text[k])})

Fingerprinted == {r \in returned : r.op = "hash_value"}

\* C11 as stated: texts that differ only in whitespace get, with the same
\* payload, the same fingerprint, and texts that differ in letter case never
\* get the same fingerprint input.
FingerprintStabilityAnyLength ==
    \A a, b \in Fingerprinted :
        /\ (a.qr_data = b.qr_data /\ SameUpToWhitespace(a.text, b.text))
               => a.value = b.value
        /\ (a.qr_data = b.qr_data /\ CaseDifferences(a.text, b.text) # {})
               => a.value # b.value

\* C11, amended: texts that differ only in whitespace get, with the same
\* payload, the same fingerprint, and texts that differ in letter case
\* within the first FingerprintTextLen characters of their normalized form
\* do not get the same fingerprint input.
FingerprintStability ==
    \A a, b \in Fingerprinted :
        /\ (a.qr_data = b.qr_data /\ SameUpToWhitespace(a.text, b.text))
               => a.value = b.value
        /\ (/\ a.qr_data = b.qr_data
            /\ \E i \in CaseDifferences(a.text, b.text) :
                   NormalizedPosition(a.text, i) <= FingerprintTextLen)
               => a.value # b.value

FingerprintStabilityWitness ==
    /\ \E a, b \in Fingerprinted :
          /\ a.text # b.text /\ a.qr_data = b.qr_data
          /\ SameUpToWhitespace(a.text, b.text)
          /\ a.value = b.value

Encryptions == {r \in returned : r.op = "encrypt_stream"}
Decryptions == {r \in returned : r.op = "decrypt_stream"}

\* C12: decrypt_stream applied to what encrypt_stream wrote for a message,
\* under the same key, returns the message; the output is the 12-byte IV,
\* a ciphertext as long as the message, and a 16-byte tag.
EncryptDecryptRoundTrip ==
    /\ \A e \in Encryptions :
          /\ Len(e.output) = 12 + Len(e.input) + 16
          /\ SubSeq(e.output, 1, 12) = e.iv
          /\ SubSeq(e.output, 12 + Len(e.input) + 1, Len(e.output))
                 = Tag(e.key, e.iv,
                       SubSeq(e.output, 13, 12 + Len(e.input)))
    /\ \A e \in Encryptions, d \in Decryptions :
          (d.file.data = e.output /\ d.key = e.key)
              => d.result = Returned(e.input)

EncryptDecryptRoundTripWitness ==
    \E e \in Encryptions, d \in Decryptions :
        /\ d.file.data = e.output /\ d.key = e.key
        /\ Len(e.input) > buffer_size
        /\ d.result.value = e.input

\* C13: decrypt_stream fails in one way for a file encrypted under another
\* key or carrying a corrupted tag, and in another way for a file that was
\* never encrypted, whatever the file's length.
WrongKeyToldFromPlain ==
    \A a, b \in Decryptions :
        ( /\ \/ a.file.origin = "encrypted" /\ a.key # a.file.key
             \/ a.file.origin = "corrupted"
          /\ b.file.origin = "plain" )
        => /\ a.result.raises # "None"
           /\ a.result # b.result

ExtractedTexts == {r \in returned : r.op = "extract_text"}

\* C14: with a key configured, on a file decrypt_stream fails on, an
\* extract_text_from_* function returns what it returns for the same file
\* without a key.
DecryptFailureFallsBack ==
    \A a, b \in ExtractedTexts :
        ( /\ a.extractor = b.extractor /\ a.data = b.data
          /\ a.encryption # NoEncryption /\ b.encryption = NoEncryption
          /\ a.decrypted.raises # "None" )
        => a.value = b.value

DecryptFailureFallsBackWitness ==
    \E a, b \in ExtractedTexts :
        /\ a.extractor = b.extractor /\ a.data = b.data
        /\ a.encryption # NoEncryption /\ b.encryption = NoEncryption
        /\ a.decrypted.raises = "InvalidTag"
        /\ a.value = b.value /\ ~a.value.text.none

\* C15: a call of process_single_document for a file of an unsupported
\* type, or for a file name without a canonical record, reaches no text
\* extraction and leaves the index, the canonical records and the failed
\* file log as they are.
SkippedCallChangesNothing ==
    [][ \A file_name \in PathNames, ex \in Extractions :
          ( /\ \/ file_name[2] \notin valid_extensions
               \/ IdsNamed(document_details, file_name) = {}
            /\ \E doc_id \in get_id_from_db(document_details, file_name) :
                   ProcessSingleDocumentAs(file_name, ex, doc_id) )
          => /\ UNCHANGED <<document_data, document_details, failed_files>>
             /\ calls' = calls
             /\ last_outcome' = "skipped"
      ]_vars

SkippedCallWitness ==
    /\ last_outcome = "skipped"
    /\ document_data # <<>>
    /\ failed_files # <<>>

\* C16: in a poll cycle, a file found on disk whose extraction raises or
\* gives no text has its name in the failed file log and is no longer
\* pending after the cycle; a cycle in which every file found fails so
\* changes neither the index nor a canonical record; and a file that left
\* the pending list with its record seen is never pending again.
ExtractionFailureIsLogged ==
    [][ /\ \A idOf \in [FoundOnDisk -> DOMAIN document_details],
              exOf \in [FoundOnDisk -> PollExtractions] :
            LET failing == {n \in FoundOnDisk :
                              \/ exOf[n].raises
                              \/ exOf[n].text = None
                              \/ IsBlank(exOf[n].text)}
            IN  PollCycleAs(idOf, exOf, [n \in FoundOnDisk |-> "up"])
                => /\ failing \subseteq Range(failed_files')
                   /\ failing \cap PendingNames(pending_files') = {}
                   /\ failing = FoundOnDisk
                        => UNCHANGED <<document_data, document_details>>
        /\ \A n \in PollNames :
             ( /\ n \notin PendingNames(pending_files)
               /\ IdsNamed(document_details, n) # {}
               /\ \A i \in IdsNamed(document_details, n) : i <= max_id )
             => n \notin PendingNames(pending_files')
      ]_vars

ExtractionFailureWitness ==
    /\ last_outcome = "failed"
    /\ failed_files # <<>>
    /\ \E n \in Range(failed_files) :
          /\ n \in disk
          /\ n \notin PendingNames(pending_files)
          /\ \A i \in DOMAIN document_data : document_data[i].file_name # n
          /\ \A i \in IdsNamed(document_details, n) :
                 document_details[i].is_duplicate = NULL

SortedNoDuplicates(names) ==
    \A i, j \in DOMAIN names : i < j => NameBefore(names[i], names[j])

\* C17: the failed file log is at all times a sorted list without
\* duplicates, a log_failed_file call on it gives such a list holding the
\* names it held and the name logged, and no step takes a name out of it.
FailedLogSortedAppendOnly ==
    /\ [](/\ SortedNoDuplicates(failed_files)
          /\ \A file_name \in PathNames :
                LET logged == log_failed_file(failed_files, file_name)
                IN  /\ SortedNoDuplicates(logged)
                    /\ Range(logged) = Range(failed_files) \cup {file_name})
    /\ [][Range(failed_files) \subseteq Range(failed_files')]_vars

FailedLogWitness ==
    /\ Len(failed_files) >= 2
    /\ last_outcome = "failed"
    /\ calls > Len(failed_files)

Detections == {r \in returned : r.op = "on_created"}

\* C18: a create event handled by the watcher leaves the index, the
\* canonical records, max_id, the pending files and the failed file log as
\* they are and makes no process_single_document call; once the engine is
\* started, a step that processes a document is a cycle of the poller.
WatcherOnlyDetects ==
    [][ /\ \A file_path \in WatchedPaths :
              OnCreated(file_path)
              => UNCHANGED <<document_data, document_details, max_id,
                             pending_files, failed_files, calls, processed,
                             last_outcome>>
        /\ ( \/ calls' # calls \/ processed' # processed
             \/ document_data' # document_data
             \/ failed_files' # failed_files
             \/ last_outcome' # last_outcome )
           => PollCycle
      ]_vars

WatcherOnlyDetectsWitness ==
    \E r \in Detections :
        /\ r.printed
        /\ r.file_path \in PendingNames(pending_files)
        /\ r.file_path \in disk
        /\ calls = 0 /\ document_data = <<>>

Raising == {"update_fails", "index_fails"}

\* C19: in a poll cycle in which process_single_document raises for some
\* files, every pending file is still examined: a file whose call returns is
\* processed and leaves the list, a file not on disk or whose call raised
\* stays exactly while its wait has not run out; and the cycle ends in a
\* state in which the loop has an id for every file its next cycle finds.
PollerSurvivesException ==
    [][ \A idOf \in [FoundOnDisk -> DOMAIN document_details],
           answer \in [FoundOnDisk -> PollAnswers] :
         LET exOf    == [n \in FoundOnDisk |-> answer[n].ex]
             storeOf == [n \in FoundOnDisk |-> answer[n].store]
             queued  == QueueNewEntries(pending_files, document_details,
                            get_new_entries_since_max_id(document_details,
                                                         max_id), now)
         IN  PollCycleAs(idOf, exOf, storeOf)
             => /\ \A k \in DOMAIN queued :
                     LET n == queued[k].file_name
                         waiting ==
                             now - queued[k].first_seen <= max_wait_time
                         pending == n \in PendingNames(pending_files')
                     IN  /\ n \notin disk => (pending <=> waiting)
                         /\ (n \in disk /\ storeOf[n] \in Raising)
                              => (pending <=> waiting)
                         /\ (n \in disk /\ storeOf[n] = "up")
                              => /\ ~pending
                                 /\ exOf[n].text = T1
                                      => \E q \in processed' : q.id = idOf[n]
                /\ \A n \in FoundOnDisk' :
                      IdsNamed(document_details', n) # {}
      ]_vars

PollerSurvivesExceptionWitness ==
    \E a, b \in PollNames :
        /\ a # b /\ a \in disk /\ b \in disk
        /\ PendingNames(pending_files) = {a}
        /\ \E i \in DOMAIN document_data : document_data[i].file_name = a
        /\ \A i \in IdsNamed(document_details, a) :
              /\ document_details[i].is_duplicate = NULL
              /\ \E j \in IdsNamed(document_details, b) :
                    /\ i < j
                    /\ document_details[j].is_duplicate = 1
                    /\ document_details[j].document_id = i

\* C20: a file found on disk whose call meets a failing id lookup or a
\* failing status update, its wait not yet run out, is still pending after
\* the cycle (and so is handed to process_single_document by the next one).
StoreFailureKeepsPending ==
    [][ \A idOf \in [FoundOnDisk -> DOMAIN document_details],
           answer \in [FoundOnDisk -> PollAnswers] :
         LET exOf    == [n \in FoundOnDisk |-> answer[n].ex]
             storeOf == [n \in FoundOnDisk |-> answer[n].store]
             queued  == QueueNewEntries(pending_files, document_details,
                            get_new_entries_since_max_id(document_details,
                                                         max_id), now)
         IN  PollCycleAs(idOf, exOf, storeOf)
             => \A k \in DOMAIN queued :
                  LET n == queued[k].file_name
                  IN  ( /\ n \in disk
                        /\ storeOf[n] \in {"lookup_fails", "update_fails"}
                        /\ now - queued[k].first_seen <= max_wait_time )
                      => n \in PendingNames(pending_files')
      ]_vars

\* C21: no step of the engine adds or removes a canonical record or changes
\* a record's file_name (its id is its place in the table); a
\* process_single_document call for the document with id doc_id changes
\* is_duplicate and document_id at most on record doc_id and, when it
\* re-points, on the record the hash lookup named.
RecordsOnlyMarked ==
    /\ [][ /\ Len(document_details') = Len(document_details)
           /\ \A i \in DOMAIN document_details :
                document_details'[i].file_name
                    = document_details[i].file_name ]_vars
    /\ [](\A file_name \in PathNames, ex \in Extractions :
            \A doc_id \in get_id_from_db(document_details, file_name) :
              LET e == Extracted(file_name, ex)
                  r == process_single_document(document_data,
                           document_details, failed_files, file_name,
                           doc_id, ex)
                  written ==
                      IF r.outcome = "repointed"
                      THEN {doc_id, SelectByHash(document_data,
                                        hash_value(e.text, e.qr))[1]}
                      ELSE {doc_id}
              IN  \A i \in DOMAIN document_details \ written :
                      r.details[i] = document_details[i])

RecordsOnlyMarkedWitness ==
    /\ last_outcome = "repointed"
    /\ \E i, j, k \in DOMAIN document_details :
          /\ document_details[i].is_duplicate = 0
          /\ document_details[j].is_duplicate = 1
          /\ document_details[j].document_id = i
          /\ document_details[k].is_duplicate = NULL

Scalings == {r \in returned : r.op = "scale_file"}

\* The file a scale_file call is about exists: at the path given, or under
\* its name in the base directory or below it.
CanBeFound(file_path) ==
    \/ file_path[1] # "" /\ file_path \in disk
    \/ \E f \in disk : /\ f[1] \in {"base", "sub"}
                       /\ f[2] = file_path[2] /\ f[3] = file_path[3]

MaxSeenIdAdvances ==
    [][ /\ max_id' >= max_id
        /\ \A query \in {"answers", "fails"} :
             LET found == IF query = "fails" THEN PendingOnDisk
                          ELSE FoundOnDisk
                 rows  == IF query = "fails" THEN {}
                          ELSE {i \in DOMAIN document_details :
                                  /\ i > max_id
                                  /\ document_details[i] # Reserved}
                 largest == IF rows = {} THEN max_id
                            ELSE CHOOSE m \in rows : \A j \in rows : m >= j
             IN  max_id' # largest
                 => \A idOf \in [found -> DOMAIN document_details],
                       answer \in [found -> PollAnswers] :
                      ~PollCycleOn(query, idOf,
                                   [n \in found |-> answer[n].ex],
                                   [n \in found |-> answer[n].store])
      ]_vars

MaxSeenIdAdvancesWitness ==
    /\ max_id >= 2
    /\ max_id = Len(document_details)
    /\ Len(pending_files) >= 2

\* C24: no canonical record that became visible after startup is skipped
\* by the poll queries: once max_id has reached a visible record's id (the
\* engine started on an empty store), the record's file name is pending or
\* the record has been processed.
NoRecordSkipped ==
    \A i \in DOMAIN document_details :
        (document_details[i] # Reserved /\ i <= max_id)
        => \/ document_details[i].file_name \in PendingNames(pending_files)
           \/ \E q \in processed : q.id = i

\* C25: no two pending entries have the same file name, and an entry
\* whose file name is still pending after a step has the first-seen time it
\* had before the step, whatever the poll queries returned.
PendingKeepsFirstSeen ==
    /\ [](\A i, j \in DOMAIN pending_files :
            pending_files[i].file_name = pending_files[j].file_name => i = j)
    /\ [][ \A i \in DOMAIN pending_files, j \in DOMAIN pending_files' :
             pending_files'[j].file_name = pending_files[i].file_name
             => pending_files'[j].first_seen = pending_files[i].first_seen
         ]_vars

PendingKeepsFirstSeenWitness ==
    /\ Len(pending_files) = 1
    /\ pending_files[1].first_seen = 0
    /\ now > 0
    /\ max_id >= 2
    /\ \A i \in DOMAIN document_details :
          document_details[i].file_name = pending_files[1].file_name

\* The entries a poll cycle has in hand: the pending ones and those it
\* queues, if its query for new entries answers.
QueuedBy(query) ==
    QueueNewEntries(pending_files, document_details,
        IF query = "fails" THEN <<>>
        ELSE get_new_entries_since_max_id(document_details, max_id), now)

\* The pending entries of a cycle that are gone after it although neither
\* case of removal applies to them, with returns(n) telling whether the call
\* for the file named n returned.
WronglyRemoved(query, returns(_), timeout_if_raised) ==
    {k \in DOMAIN QueuedBy(query) :
        LET n == QueuedBy(query)[k].file_name
            elapsed == now - QueuedBy(query)[k].first_seen
        IN  /\ n \notin PendingNames(pending_files')
            /\ ~(n \in disk /\ returns(n))
            /\ ~(n \notin disk /\ elapsed > max_wait_time)
            /\ ~(timeout_if_raised /\ n \in disk /\ ~returns(n)
                   /\ elapsed > max_wait_time)}

\* A poll cycle with the given answers removes an entry wrongly.
RemovesWrongly(timeout_if_raised) ==
    \E query \in {"answers", "fails"} :
        LET found == PendingNames(QueuedBy(query)) \cap disk
        IN  \E idOf \in [found -> DOMAIN document_details],
               answer \in [found -> PollAnswers] :
              LET returns(n) == answer[n].store \notin Raising
              IN  /\ WronglyRemoved(query, returns, timeout_if_raised) # {}
                  /\ PollCycleOn(query, idOf,
                                 [n \in found |-> answer[n].ex],
                                 [n \in found |-> answer[n].store])

PendingEventuallyRemoved ==
    \A n \in PollNames :
        (n \in PendingNames(pending_files))
            ~> (n \notin PendingNames(pending_files))

PendingEventuallyRemovedWitness ==
    /\ pending_files = <<>>
    /\ Len(document_details) = 2 /\ max_id = 2
    /\ Cardinality(disk) = 1
    /\ processed = {}
    /\ last_outcome = "raised"
    /\ now > max_wait_time

\* C28: when the index entry matching a document's hash has a non-null
\* original id found_original_id and the document's id is not below it,
\* process_single_document leaves the index unchanged, and the only thing it
\* changes in the canonical store is record id, which gets is_duplicate = 1
\* and document_id = found_original_id.
DuplicateOnlyMarksItself ==
    [](\A file_name \in PathNames, ex \in Extractions :
         \A doc_id \in get_id_from_db(document_details, file_name) :
           LET e == Extracted(file_name, ex)
               row == SelectByHash(document_data, hash_value(e.text, e.qr))
               r == process_single_document(document_data, document_details,
                        failed_files, file_name, doc_id, ex)
           IN  (/\ file_name[2] \in valid_extensions
                /\ doc_id # NULL
                /\ ~e.raises
                /\ ~(e.text = None \/ IsBlank(e.text))
                /\ row # <<>>
                /\ row[1] # NULL
                /\ doc_id >= row[1])
               => /\ r.index = document_data
                  /\ r.failed = failed_files
                  /\ DOMAIN r.details = DOMAIN document_details
                  /\ \A i \in DOMAIN document_details :
                       r.details[i] =
                         IF i = doc_id
                         THEN [file_name |-> document_details[i].file_name,
                               is_duplicate |-> 1,
                               document_id |-> row[1]]
                         ELSE document_details[i])

DuplicateOnlyMarksItselfWitness ==
    /\ last_outcome = "duplicate"
    /\ \E i \in DOMAIN document_details :
         /\ document_details[i].is_duplicate = 1
         /\ document_details[i].document_id # NULL
         /\ document_details[i].document_id < i
         /\ \E k \in DOMAIN document_data :
              document_data[k].mysql_original_id
                  = document_details[i].document_id

\* The k-th index entry is in its place after the step, with its file name,
\* content, qr_data and hash.
EntryStays(k) ==
    /\ k \in DOMAIN document_data'
    /\ document_data'[k].hash = document_data[k].hash
    /\ document_data'[k].file_name = document_data[k].file_name
    /\ document_data'[k].content = document_data[k].content
    /\ document_data'[k].qr_data = document_data[k].qr_data

\* C29: across process_single_document calls, searches and poll cycles an
\* index entry once inserted stays in the index; the only step that removes
\* an entry is a call of clean_database, which leaves the index empty and
\* touches nothing else.
OnlyCleanDatabaseRemoves ==
    [][ (\E k \in DOMAIN document_data : ~EntryStays(k))
          => /\ document_data' = <<>>
             /\ UNCHANGED <<returned, last_outcome, document_details,
                            failed_files, proc, pollVars, results, processed,
                            calls>>
      ]_vars

OnlyCleanDatabaseRemovesWitness ==
    /\ document_data = <<>>
    /\ \E r \in processed :
         /\ document_details[r.id].is_duplicate = 0
         /\ \E q \in processed : q.id > r.id /\ q.hash = r.hash

\* The reads and writes made so far.
Accesses == {r \in returned : r.op = "access"}

\* The threads inside a with block of max_id_lock around max_id, or at the
\* write of line 65.
AtMaxId == {t \in DOMAIN proc : proc[t].pc \in {"init", "read", "write"}}

\* C30 as stated: every read or write of max_id and of the pending files is
\* made while holding the lock, and no two threads are at max_id at the same
\* time or touch the same pending files.
EveryAccessLocked ==
    /\ \A r \in Accesses : r.locked
    /\ \A t, u \in AtMaxId : t = u
    /\ \A r \in Accesses : r.var = "pending_files" => r.thread = r.owner

\* C30, amended: every read or write of max_id but the constructor's first
\* assignment (line 65, before any poller runs) is made while holding
\* max_id_lock; the pending files are a local of the poller function, read
\* and written only by its own thread; so no two threads are at max_id at
\* the same time or touch the same pending files.
SharedStateNeverRaced ==
    /\ \A r \in Accesses : r.var = "max_id" /\ r.line # 65 => r.locked
    /\ \A r \in Accesses : r.line = 65 => r.thread = Main
    /\ proc[Main].pc = "init" => \A t \in Procs : proc[t].pc = "unstarted"
    /\ \A t, u \in AtMaxId : t = u
    /\ \A r \in Accesses : r.var = "pending_files" => r.thread = r.owner

SharedStateNeverRacedWitness ==
    /\ \E t, u \in Procs :
         /\ t # u
         /\ proc[t].pc = "write" /\ proc[t].holds
         /\ proc[u].pc = "latest" /\ ~LockAcquirable(proc)
    /\ \A t \in Procs : \E r \in Accesses :
         r.thread = t /\ r.var = "pending_files"
    /\ \E r \in Accesses : r.line = 128

\* What the hash is taken of, by the claim: the first FingerprintTextLen
\* characters of the whitespace-normalized text, and the payload, the empty
\* string if there is none.
HashedOf(e) ==
    <<SubSeq(JoinSpace(Split(e.text)), 1,
             IF Len(JoinSpace(Split(e.text))) < FingerprintTextLen
             THEN Len(JoinSpace(Split(e.text))) ELSE FingerprintTextLen),
      IF e.qr = None THEN <<>> ELSE e.qr>>

AgreeingValues ==
    [ex \in AgreeingExtractions |->
        [n \in AgreeingNames |-> HashedOf(Extracted(n, ex))]]

\* The hashes process_single_document computes for them.
AgreeingHashes ==
    [ex \in AgreeingExtractions |->
        [n \in AgreeingNames |->
            hash_value(Extracted(n, ex).text, Extracted(n, ex).qr)]]

SameHashWhenAgreeing ==
    \A f1, f2 \in AgreeingNames, ex1, ex2 \in AgreeingExtractions :
        AgreeingValues[ex1][f1] = AgreeingValues[ex2][f2]
            => AgreeingHashes[ex1][f1] = AgreeingHashes[ex2][f2]

\* C31: two documents that agree on the first FingerprintTextLen characters
\* of their normalized text and on their payload (none counting as empty)
\* get the same hash, whatever their file names and the rest of their text;
\* and when each document has been processed once and the two are the only
\* ones of their hash, the one with the lower id is the original, the other
\* its duplicate, and one index entry stands for both.
AgreeingDocumentsAreDuplicates ==
    /\ SameHashWhenAgreeing
    /\ (calls = Cardinality(processed)
          /\ \A p, q \in processed : p.id = q.id => p = q)
       => \A p, q \in processed :
            (p.id < q.id /\ p.hash = q.hash
               /\ \A o \in processed : o.hash = p.hash => o \in {p, q})
            => /\ document_details[p.id].is_duplicate = 0
               /\ document_details[p.id].document_id = NULL
               /\ document_details[q.id].is_duplicate = 1
               /\ document_details[q.id].document_id = p.id
               /\ \E k \in DOMAIN document_data :
                    /\ document_data[k].hash = p.hash
                    /\ document_data[k].mysql_original_id = p.id
                    /\ \A j \in DOMAIN document_data :
                         document_data[j].hash = p.hash => j = k

AgreeingDocumentsAreDuplicatesWitness ==
    /\ Len(document_data) = 1
    /\ Len(document_data[1].content) > FingerprintTextLen
    /\ document_data[1].mysql_original_id = 1
    /\ document_data[1].file_name = RecordName(2)
    /\ processed = {[id |-> 1, hash |-> document_data[1].hash],
                    [id |-> 2, hash |-> document_data[1].hash]}
    /\ document_details[2].is_duplicate = 1
    /\ document_details[2].document_id = 1
    /\ last_outcome = "repointed"

\* C32: every canonical record that has been polled, whose file is on disk
\* and whose pending entry has been dealt with, has been processed with its
\* own id and is marked original or duplicate, also when another record has
\* its file name.
PolledRecordProcessedAsItself ==
    \A i \in DOMAIN document_details :
        (/\ i <= max_id
         /\ document_details[i].file_name \in disk
         /\ document_details[i].file_name \notin PendingNames(pending_files))
        => /\ \E p \in processed : p.id = i
           /\ document_details[i].is_duplicate \in {0, 1}

\* C33: whatever the interleaving of get_instance calls, one
\* DocumentProcessor is constructed, load_existing_documents runs once, and
\* every caller is handed that instance.
OneInstance ==
    /\ Cardinality(Constructed) <= 1
    /\ Cardinality({r \in returned : r.op = "load"}) <= 1
    /\ \A r \in returned : r.op = "return" => r.instance = 1

\* C34: process_single_document is idempotent.  A restart that finds on
\* disk only documents processed before, with the content they had, leaves
\* the index and every canonical record as they were.
ReprocessingChangesNothing ==
    [][ \A exOf \in [disk -> FileTexts] :
          (/\ Restart(exOf)
           /\ \A n \in disk : \A i \in IdsNamed(document_details, n) :
                [id |-> i, hash |-> hash_value(exOf[n].text, exOf[n].qr)]
                    \in processed)
          => /\ document_data' = document_data
             /\ document_details' = document_details ]_vars

\* C35: no canonical record is marked as a duplicate of itself.
NoSelfDuplicate ==
    \A i \in DOMAIN document_details :
        ~(/\ document_details[i].is_duplicate = 1
          /\ document_details[i].document_id = i)

\* C36: the file_name of every index entry is the file name of the
\* canonical record its original id refers to.
EntryNamesItsOriginal ==
    \A k \in DOMAIN document_data :
        document_data[k].mysql_original_id # NULL
        => /\ document_data[k].mysql_original_id \in DOMAIN document_details
           /\ document_details[document_data[k].mysql_original_id].file_name
                = document_data[k].file_name

\* C37: a call of process_single_document in which an update of the
\* canonical store raises leaves the index as it was before the call.
IndexUntouchedWhenUpdateRaises ==
    \A file_name \in PollNames, ex \in PollExtractions :
      \A doc_id \in get_id_from_db(document_details, file_name) :
        LET r == process_single_document_on(document_data, document_details,
                     failed_files, file_name, doc_id, ex, "update_fails")
        IN  r.raised => r.index = document_data

\* C38: a call of clean_database removes every index entry and changes
\* nothing else: the is_duplicate and document_id of every canonical record,
\* max_id, the pending files and the failed-file log are as they were.
CleanDatabaseOnlyEmptiesIndex ==
    [][ CleanDatabase
          => /\ document_data' = <<>>
             /\ DOMAIN document_details' = DOMAIN document_details
             /\ \A i \in DOMAIN document_details :
                  /\ document_details'[i].is_duplicate
                       = document_details[i].is_duplicate
                  /\ document_details'[i].document_id
                       = document_details[i].document_id
             /\ max_id' = max_id
             /\ pending_files' = pending_files
             /\ failed_files' = failed_files
      ]_vars

CleanDatabaseOnlyEmptiesIndexWitness ==
    /\ document_data = <<>>
    /\ failed_files # <<>>
    /\ max_id > 0
    /\ \E i \in DOMAIN document_details : document_details[i].is_duplicate = 0

\* C39: a call of get_chat_history that follows a call of clear_history
\* returns the empty list, whatever process_pdf and chat calls came before.
HistoryEmptyAfterClear ==
    [][ (last_outcome = "clear_history" /\ last_outcome' = "get_chat_history")
          => results' = <<>>
      ]_vars

====
